---- MODULE Spec2Model ----
(***************************************************************************)
(* vidos: the reconciliation engine.  The hosts file and the files of the  *)
(* proxy's managed directory are texts: a text is a sequence of            *)
(* one-character strings, so that splitting into lines, joining, the       *)
(* hosts-entry pattern and the comment marker are computed, not assumed.   *)
(***************************************************************************)
EXTENDS Integers, Sequences, FiniteSets, TLC

VARIABLES
    domains,      \* Config.domains: the declared domains, in order
    hostsFile,    \* the text of the hosts file (config.settings.host_file)
    nginxDir,     \* the managed directory: file name -> text
    last,         \* the last operation called, its argument and what it returned
    before,       \* what the operation's store held when `last` was called
    calls,        \* how many operations have been called so far
    cmd,          \* the command that runs or ran last: its position and its locals,
                  \* and whether a command of the run has thrown
    writes,       \* how many times the last operation wrote the hosts file
    settings,     \* Config.settings: the proxy's install path and the folder name
    nginxConf,    \* the text of the proxy's main configuration, conf/nginx.conf
    document,     \* config.json: what is at its path
    process       \* the proxy process: whether it runs, and the commands sent to it

vars == <<domains, hostsFile, nginxDir, last, before, calls, cmd, writes,
          settings, nginxConf, document, process>>

(***************************************************************************)
(* Bounds of the model.                                                    *)
(***************************************************************************)
MaxHostLines == 2   \* lines of the hosts file the run starts from
MaxDomains == 2     \* declared domains
MaxCalls == 2       \* operations called in one run
MaxCommands == 3    \* commands run one after the other
MaxConfLines == 2   \* lines of nginx.conf the run starts from
MaxFieldLen == 2    \* characters of the ip and of the name of a host entry

(***************************************************************************)
(* Text primitives (JavaScript strings, lodash).                           *)
(***************************************************************************)
\* /\s/ of a JavaScript RegExp, restricted to the characters of the model.
WhiteSpace == {" ", "\t", "\n", "\r"}

\* The characters `.` of a RegExp does not match.
LineTerminators == {"\n", "\r"}

Sub(s, i, j) == IF j < i THEN <<>> ELSE SubSeq(s, i, j)

RECURSIVE RunEndIn(_, _, _)
\* The first position >= i of s whose character is not in `set` (Len(s)+1 if none).
RunEndIn(s, i, set) ==
    IF i > Len(s) THEN i
    ELSE IF s[i] \notin set THEN i
    ELSE RunEndIn(s, i + 1, set)

RECURSIVE RunEndNotIn(_, _, _)
\* The first position >= i of s whose character is in `set` (Len(s)+1 if none).
RunEndNotIn(s, i, set) ==
    IF i > Len(s) THEN i
    ELSE IF s[i] \in set THEN i
    ELSE RunEndNotIn(s, i + 1, set)

\* String.prototype.trim
Trim(s) ==
    LET a == RunEndIn(s, 1, WhiteSpace)
        b == IF a > Len(s) THEN 0
             ELSE CHOOSE j \in a..Len(s) :
                    /\ s[j] \notin WhiteSpace
                    /\ \A k \in (j + 1)..Len(s) : s[k] \in WhiteSpace
    IN  Sub(s, a, b)

\* lodash startsWith(line, "#")
commentedOut(line) == Len(line) > 0 /\ line[1] = "#"

\* line => `#${line}`
commentOut(line) == <<"#">> \o line

\* flow(tail, join('')): the string without its first character
removeFirst(line) == Sub(line, 2, Len(line))

\* lodash trimStart(line, "#"): the string without its leading run of '#'
trimStartHash(line) == Sub(line, RunEndIn(line, 1, {"#"}), Len(line))

\* FileSystem.readLines: the text split at "\n"
SplitLines(text) ==
    LET nl == {i \in 1..Len(text) : text[i] = "\n"}
        n == Cardinality(nl)
        \* the position of the k-th "\n"; 0 before the text, Len(text)+1 after it
        at(k) == IF k = 0 THEN 0
                 ELSE IF k = n + 1 THEN Len(text) + 1
                 ELSE CHOOSE i \in nl : Cardinality({j \in nl : j < i}) = k - 1
    IN  [k \in 1..(n + 1) |-> Sub(text, at(k - 1) + 1, at(k) - 1)]

RECURSIVE JoinLines(_)
\* FileSystem.writeLines: lines.join("\n")
JoinLines(lines) ==
    IF Len(lines) = 0 THEN <<>>
    ELSE IF Len(lines) = 1 THEN lines[1]
    ELSE lines[1] \o <<"\n">> \o JoinLines(Tail(lines))

\* lodash filter on an array
RECURSIVE SelectIdx(_, _, _)
SelectIdx(seq, keep, i) ==
    IF i > Len(seq) THEN <<>>
    ELSE (IF i \in keep THEN <<seq[i]>> ELSE <<>>) \o SelectIdx(seq, keep, i + 1)

Range(seq) == {seq[i] : i \in 1..Len(seq)}

(***************************************************************************)
(* Domain                                                                  *)
(***************************************************************************)
INACTIVE == 0
ACTIVE == 1

\* String.prototype.replace(":", "$"): the first occurrence only
ReplaceFirstColon(s) ==
    LET n == RunEndNotIn(s, 1, {":"})
    IN  IF n > Len(s) THEN s
        ELSE Sub(s, 1, n - 1) \o <<"$">> \o Sub(s, n + 1, Len(s))

\* A file name made of the source and the destination up to its first ':'.
file_nameWithoutPort(d) ==
    d.source \o <<"-">> \o Sub(d.destination, 1, RunEndNotIn(d.destination, 1, {":"}) - 1)
        \o <<".", "c", "o", "n", "f">>

\* Domain.file_name, set by the constructor
file_name(d) ==
    d.source \o <<"-">> \o ReplaceFirstColon(d.destination) \o <<".", "c", "o", "n", "f">>

Domain(source, destination, status) ==
    [source |-> source, destination |-> destination, status |-> status]

\* new Domain(source, destination, ...status): the object with its own
\* properties; `status` is what was passed after the destination, nothing
\* (or undefined) or one value, and defaults to ACTIVE; nothing is thrown
\* for any strings
DomainObject(source, destination, status) ==
    [source |-> source,
     destination |-> destination,
     status |-> IF status = <<>> THEN ACTIVE ELSE status[1],
     file_name |-> file_name([source |-> source, destination |-> destination])]

(***************************************************************************)
(* HostEntry                                                               *)
(***************************************************************************)
VIDOS_COMMENT == <<"v", "i", "d", "o", "s">>

\* The value fromString returns for a line that is not ours.
Null == [null |-> TRUE]

HostEntry(ip, name) == [ip |-> ip, name |-> name]

removePortFromIp(ip) ==
    LET portIndex == RunEndNotIn(ip, 1, {":"})
    IN  IF portIndex > Len(ip) THEN ip ELSE Sub(ip, 1, portIndex - 1)

\* A toString that writes the entry without the signature comment.
EntryToStringUnsigned(e) == Trim(<<"\n">> \o e.ip \o <<" ">> \o e.name)

\* HostEntry.toString
EntryToString(e) ==
    Trim(<<"\n">> \o e.ip \o <<" ">> \o e.name \o <<" ", "#", " ">> \o VIDOS_COMMENT)

\* HostEntry.fromString: HOST_ENTRY_REGEX matched against the line
\*   (?<address>^[^#\s]+) (?<hostname>[^#\s]+)(?:\s*#\s*(?<comment>.+))?
HostEntryFromString(str) ==
    LET a1 == RunEndNotIn(str, 1, WhiteSpace \cup {"#"})   \* end of address
        h0 == a1 + 1
        h1 == RunEndNotIn(str, h0, WhiteSpace \cup {"#"})  \* end of hostname
        w1 == RunEndIn(str, h1, WhiteSpace)                \* \s* before '#'
        c0 == RunEndIn(str, w1 + 1, WhiteSpace)            \* \s* after '#'
        c1 == RunEndNotIn(str, c0, LineTerminators)        \* .+
        matched == /\ a1 > 1
                   /\ a1 <= Len(str)
                   /\ str[a1] = " "
                   /\ h1 > h0
        hasComment == /\ w1 <= Len(str)
                      /\ str[w1] = "#"
                      /\ c1 > c0
        comment == Sub(str, c0, c1 - 1)
    IN  IF ~matched THEN Null
        ELSE IF ~hasComment THEN Null
        ELSE IF comment # VIDOS_COMMENT THEN Null
        ELSE HostEntry(Sub(str, 1, a1 - 1), Sub(str, h0, h1 - 1))

\* HostEntry.fromDomain
HostEntryFromDomain(d) == HostEntry(removePortFromIp(d.destination), d.source)

\* arrayContains(arr, target): some item isEqual to the target
arrayContains(arr, target) == \E i \in 1..Len(arr) : arr[i] = target

(***************************************************************************)
(* Hosts                                                                   *)
(***************************************************************************)
\* Hosts.readFile
HostsReadFile(text) == SplitLines(text)

\* Hosts.readHostsFile: the lines that parse as ours, as entries
readHostsFile(text) ==
    LET lines == HostsReadFile(text)
        parsed == [i \in 1..Len(lines) |-> HostEntryFromString(lines[i])]
    IN  SelectIdx(parsed, {i \in 1..Len(lines) : parsed[i] # Null}, 1)

\* An activeHosts that forgets the status filter.
activeHostsAnyStatus(doms) == [i \in 1..Len(doms) |-> HostEntryFromDomain(doms[i])]

\* filter(config.domains, {status: ACTIVE}).map(HostEntry.fromDomain)
activeHosts(doms) ==
    LET es == [i \in 1..Len(doms) |-> HostEntryFromDomain(doms[i])]
    IN  SelectIdx(es, {i \in 1..Len(doms) : doms[i].status = ACTIVE}, 1)

\* hostEntries.filter(host => !arrayContains(activeHosts, host))
entriesToRemove(doms, text) ==
    LET hostEntries == readHostsFile(text)
    IN  SelectIdx(hostEntries,
                  {i \in 1..Len(hostEntries) : ~arrayContains(activeHosts(doms), hostEntries[i])},
                  1)

\* activeHosts.filter(host => !arrayContains(hostEntries, host))
entriesToAdd(doms, text) ==
    LET act == activeHosts(doms)
    IN  SelectIdx(act,
                  {i \in 1..Len(act) : ~arrayContains(readHostsFile(text), act[i])},
                  1)

\* An update that leaves the blank lines out of what it writes.
HostsUpdateTextNoBlank(doms, text) ==
    LET lines == HostsReadFile(text)
        rem == entriesToRemove(doms, text)
        add == entriesToAdd(doms, text)
        kept == SelectIdx(lines,
                          {i \in 1..Len(lines) :
                              LET host == HostEntryFromString(lines[i])
                              IN  lines[i] # <<>> /\ ~(host # Null /\ arrayContains(rem, host))},
                          1)
    IN  JoinLines(kept \o [i \in 1..Len(add) |-> EntryToString(add[i])])

\* Hosts.update: the text written, in one writeLines
HostsUpdateText(doms, text) ==
    LET lines == HostsReadFile(text)
        rem == entriesToRemove(doms, text)
        add == entriesToAdd(doms, text)
        kept == SelectIdx(lines,
                          {i \in 1..Len(lines) :
                              LET host == HostEntryFromString(lines[i])
                              IN  ~(host # Null /\ arrayContains(rem, host))},
                          1)
    IN  JoinLines(kept \o [i \in 1..Len(add) |-> EntryToString(add[i])])

\* Hosts.update: the Changes returned
HostsUpdateResult(doms, text) ==
    [added |-> entriesToAdd(doms, text), removed |-> entriesToRemove(doms, text)]

\* An update that writes the file once for every entry it adds or removes.
HostsUpdateWritesPerEntry(doms, text) ==
    Len(entriesToAdd(doms, text)) + Len(entriesToRemove(doms, text))

\* Hosts.update: how many times it writes the file, the one writeLines
HostsUpdateWrites(doms, text) == 1

\* Hosts.exists
HostsExists(text, host) == arrayContains(readHostsFile(text), host)

\* An add that returns true whether or not it appended.
HostsAddResultAlways(text, host) == TRUE

\* Hosts.add: false when the entry exists, else one append
HostsAddResult(text, host) == ~arrayContains(readHostsFile(text), host)

\* An add that writes the new line over the file instead of appending it.
HostsAddTextOverwrite(text, host) ==
    IF arrayContains(readHostsFile(text), host) THEN text
    ELSE EntryToString(host)

HostsAddText(text, host) ==
    IF arrayContains(readHostsFile(text), host) THEN text
    ELSE text \o <<"\n">> \o EntryToString(host)

\* Hosts.add: how many times it writes the file, the append unless it
\* returns early
HostsAddWrites(text, host) == IF arrayContains(readHostsFile(text), host) THEN 0 ELSE 1

\* Hosts.remove: how many times it writes the file
HostsRemoveWrites(text, host) == IF arrayContains(readHostsFile(text), host) THEN 1 ELSE 0

\* Hosts.remove: false when the entry is absent, else one writeLines
HostsRemoveResult(text, host) == arrayContains(readHostsFile(text), host)

\* A remove that takes out only the first line that holds the entry.
HostsRemoveTextFirstOnly(text, host) ==
    LET lines == HostsReadFile(text)
        hit == {i \in 1..Len(lines) : HostEntryFromString(lines[i]) = host}
    IN  IF hit = {} THEN text
        ELSE JoinLines(SelectIdx(lines,
                                 (1..Len(lines)) \ {CHOOSE i \in hit : \A k \in hit : i <= k},
                                 1))

\* Hosts.remove: the file afterwards, without the lines that read as the entry
HostsRemoveText(text, host) ==
    IF ~arrayContains(readHostsFile(text), host) THEN text
    ELSE LET lines == HostsReadFile(text)
         IN  JoinLines(SelectIdx(lines,
                                 {i \in 1..Len(lines) : HostEntryFromString(lines[i]) # host},
                                 1))

(***************************************************************************)
(* FileSystem, on the managed directory                                    *)
(***************************************************************************)
FilesExists(dir, name) == name \in DOMAIN dir

FilesWrite(dir, name, text) == (name :> text) @@ dir

FilesDelete(dir, name) == [n \in (DOMAIN dir) \ {name} |-> dir[n]]

RECURSIVE SetToSeq(_)
\* readdir: the names of a directory, in the order the system lists them
SetToSeq(S) ==
    IF S = {} THEN <<>>
    ELSE LET x == CHOOSE y \in S : TRUE
         IN  <<x>> \o SetToSeq(S \ {x})

\* lodash difference(a, b): the items of a that are not in b, in a's order
difference(a, b) == SelectIdx(a, {i \in 1..Len(a) : ~arrayContains(b, a[i])}, 1)

\* A listing that takes the names to exclude for the listing and the listing
\* for the names to exclude.
listFilesSwapped(dir, excluding) == difference(excluding, SetToSeq(DOMAIN dir))

\* FileSystem.listFiles
listFiles(dir, excluding) == difference(SetToSeq(DOMAIN dir), excluding)

(***************************************************************************)
(* Nginx                                                                   *)
(***************************************************************************)
COMMON_CONFIG_FILE ==
    <<"l", "o", "c", "a", "l", "-", "d", "o", "m", "a", "i", "n", "s", "-", "c", "o", "m",
      "m", "o", "n", ".", "c", "o", "n", "f">>

COMMON_CONFIG ==
    <<"p", "r", "o", "x", "y", "_", "h", "t", "t", "p", "_", "v", "e", "r", "s", "i", "o",
      "n", " ", "1", ".", "1", ";", " ", "\n", "p", "r", "o", "x", "y", "_", "s", "e", "t",
      "_", "h", "e", "a", "d", "e", "r", " ", "U", "p", "g", "r", "a", "d", "e", " ", "$",
      "h", "t", "t", "p", "_", "u", "p", "g", "r", "a", "d", "e", ";", " ", "\n", "p", "r",
      "o", "x", "y", "_", "s", "e", "t", "_", "h", "e", "a", "d", "e", "r", " ", "C", "o",
      "n", "n", "e", "c", "t", "i", "o", "n", " ", "'", "u", "p", "g", "r", "a", "d", "e",
      "'", ";", " ", "\n", "p", "r", "o", "x", "y", "_", "s", "e", "t", "_", "h", "e", "a",
      "d", "e", "r", " ", "H", "o", "s", "t", " ", "$", "h", "o", "s", "t", ";", " ", "\n",
      "p", "r", "o", "x", "y", "_", "c", "a", "c", "h", "e", "_", "b", "y", "p", "a", "s",
      "s", " ", "$", "h", "t", "t", "p", "_", "u", "p", "g", "r", "a", "d", "e", ";">>

\* Nginx.domainServerFileContent: the dedented server block
domainServerFileContent(d) ==
    JoinLines(<<
        <<"s", "e", "r", "v", "e", "r", " ", "{">>,
        <<" ", " ", "l", "i", "s", "t", "e", "n", " ", "8", "0", ";">>,
        <<" ", " ", "s", "e", "r", "v", "e", "r", "_", "n", "a", "m", "e", " ">> \o d.source \o <<";">>,
        <<" ", " ", "l", "o", "c", "a", "t", "i", "o", "n", " ", "/", " ", "{">>,
        <<" ", " ", " ", " ", "p", "r", "o", "x", "y", "_", "p", "a", "s", "s", " ", "h",
          "t", "t", "p", ":", "/", "/">>
            \o d.destination \o <<";">>,
        <<" ", " ", " ", " ", "i", "n", "c", "l", "u", "d", "e", " ", "l", "o", "c", "a",
          "l", "-", "d", "o", "m", "a", "i", "n", "s", "/", "l", "o", "c", "a", "l", "-",
          "d", "o", "m", "a", "i", "n", "s", "-", "c", "o", "m", "m", "o", "n", ".", "c",
          "o", "n", "f", ";">>,
        <<" ", " ", "}">>,
        <<"}">> >>)

\* every(file_data, line => startsWith(line, "#"))
everyCommentedOut(lines) == \A i \in 1..Len(lines) : commentedOut(lines[i])

\* A guard that takes a file with some commented line for a disabled one.
someCommentedOut(lines) == \E i \in 1..Len(lines) : commentedOut(lines[i])

\* Nginx.disableDomain on the text of the domain's file: what it returns
DisableDomainResult(text) == ~everyCommentedOut(SplitLines(text))

\* A disableDomain that leaves the first line as it is.
DisableDomainTextButFirst(text) ==
    LET file_data == SplitLines(text)
    IN  IF everyCommentedOut(file_data) THEN text
        ELSE JoinLines([i \in 1..Len(file_data) |->
                          IF i = 1 THEN file_data[i] ELSE commentOut(file_data[i])])

\* Nginx.disableDomain: the text the file holds afterwards
DisableDomainText(text) ==
    LET file_data == SplitLines(text)
    IN  IF everyCommentedOut(file_data) THEN text
        ELSE JoinLines([i \in 1..Len(file_data) |-> commentOut(file_data[i])])

\* An enableDomain whose guard is `some` instead of `every`.
EnableDomainResultSome(text) == someCommentedOut(SplitLines(text))

\* Nginx.enableDomain on the text of the domain's file: what it returns
EnableDomainResult(text) == everyCommentedOut(SplitLines(text))

\* Nginx.enableDomain: the text the file holds afterwards
EnableDomainText(text) ==
    LET file_data == SplitLines(text)
    IN  IF ~everyCommentedOut(file_data) THEN text
        ELSE JoinLines([i \in 1..Len(file_data) |-> trimStartHash(file_data[i])])

\* Nginx.addDomain: false when the file exists, else the server block is written
AddDomainResult(dir, d) == ~FilesExists(dir, file_name(d))

\* An addDomain that writes the server block over a file that is there.
AddDomainDirOverwrite(dir, d) == FilesWrite(dir, file_name(d), domainServerFileContent(d))

\* Nginx.addDomain: the directory afterwards
AddDomainDir(dir, d) ==
    IF FilesExists(dir, file_name(d)) THEN dir
    ELSE FilesWrite(dir, file_name(d), domainServerFileContent(d))

\* Nginx.removeDomain: false when there is no file, else the file is deleted
RemoveDomainResult(dir, d) == FilesExists(dir, file_name(d))

RemoveDomainDir(dir, d) ==
    IF FilesExists(dir, file_name(d)) THEN FilesDelete(dir, file_name(d)) ELSE dir

\* Nginx.createCommonDomainConfig: false when the common file exists
CreateCommonResult(dir) == ~FilesExists(dir, COMMON_CONFIG_FILE)

\* A createCommonDomainConfig that writes the common file whether it is there
\* or not.
createCommonDomainConfigAlways(dir) == FilesWrite(dir, COMMON_CONFIG_FILE, COMMON_CONFIG)

\* Nginx.createCommonDomainConfig: the directory afterwards
createCommonDomainConfig(dir) ==
    IF FilesExists(dir, COMMON_CONFIG_FILE) THEN dir
    ELSE FilesWrite(dir, COMMON_CONFIG_FILE, COMMON_CONFIG)

RECURSIVE addAllDomains(_, _)
\* Nginx.addAllDomains: addDomain for every declared domain
addAllDomains(dir, doms) ==
    IF doms = <<>> THEN dir
    ELSE addAllDomains(AddDomainDir(dir, Head(doms)), Tail(doms))

\* partition(config.domains, {status: ACTIVE}): [active, inactive]
partitionActive(doms) ==
    << SelectIdx(doms, {i \in 1..Len(doms) : doms[i].status = ACTIVE}, 1),
       SelectIdx(doms, {i \in 1..Len(doms) : doms[i].status # ACTIVE}, 1) >>

\* Nginx.updateDomainStatuses: the tasks, enableDomain for the active domains
\* and then disableDomain for the inactive ones
updateDomainStatuses(doms) ==
    LET active == partitionActive(doms)[1]
        inactive == partitionActive(doms)[2]
    IN  [i \in 1..Len(active) |-> [enable |-> TRUE, domain |-> active[i]]]
        \o [i \in 1..Len(inactive) |-> [enable |-> FALSE, domain |-> inactive[i]]]

\* What a status task returns on a directory.
StatusTaskResult(dir, task) ==
    IF task.enable THEN EnableDomainResult(dir[file_name(task.domain)])
    ELSE DisableDomainResult(dir[file_name(task.domain)])

\* The directory a status task leaves.
StatusTaskDir(dir, task) ==
    FilesWrite(dir, file_name(task.domain),
               IF task.enable THEN EnableDomainText(dir[file_name(task.domain)])
               ELSE DisableDomainText(dir[file_name(task.domain)]))

RECURSIVE RunStatusTasks(_, _)
RunStatusTasks(dir, tasks) ==
    IF tasks = <<>> THEN dir
    ELSE RunStatusTasks(StatusTaskDir(dir, Head(tasks)), Tail(tasks))

\* A removeInvalidFiles that deletes the first invalid file only.
removeInvalidFilesFirst(dir, invalid_files) ==
    IF invalid_files = <<>> THEN dir ELSE FilesDelete(dir, Head(invalid_files))

RECURSIVE removeInvalidFiles(_, _)
\* Nginx.removeInvalidFiles: files.delete for every invalid file
removeInvalidFiles(dir, invalid_files) ==
    IF invalid_files = <<>> THEN dir
    ELSE removeInvalidFiles(FilesDelete(dir, Head(invalid_files)), Tail(invalid_files))

\* map(config.domains, "file_name")
domainFileNames(doms) == [i \in 1..Len(doms) |-> file_name(doms[i])]

\* Nginx.update: the directory once the common file and the missing domain
\* files are written, which is the directory update lists
UpdateListedDir(dir, doms) == addAllDomains(createCommonDomainConfig(dir), doms)

\* Nginx.update: [valid_files, invalid_files] of the listing
UpdatePartition(dir, doms) ==
    LET files == listFiles(UpdateListedDir(dir, doms), <<COMMON_CONFIG_FILE>>)
        names == domainFileNames(doms)
    IN  << SelectIdx(files, {i \in 1..Len(files) : arrayContains(names, files[i])}, 1),
           SelectIdx(files, {i \in 1..Len(files) : ~arrayContains(names, files[i])}, 1) >>

\* Nginx.update: difference(domains, valid_files)
UpdateMissingFiles(dir, doms) ==
    difference(domainFileNames(doms), UpdatePartition(dir, doms)[1])

\* Nginx.update: the directory it leaves
NginxUpdateDir(dir, doms) ==
    removeInvalidFiles(
        RunStatusTasks(UpdateListedDir(dir, doms), updateDomainStatuses(doms)),
        UpdatePartition(dir, doms)[2])

\* Nginx.update: const [statusChanged] = await Promise.all([...]), the value
\* of the first task (a delete resolves to undefined)
UpdateStatusChanged(dir, doms) ==
    LET tasks == updateDomainStatuses(doms)
    IN  IF tasks = <<>> THEN FALSE
        ELSE StatusTaskResult(UpdateListedDir(dir, doms), tasks[1])

\* Nginx.update: what it returns, the Changes or the boolean
NginxUpdateResult(dir, doms) ==
    LET missing_files == UpdateMissingFiles(dir, doms)
        invalid_files == UpdatePartition(dir, doms)[2]
    IN  IF Len(missing_files) # 0 \/ Len(invalid_files) # 0
        THEN [kind |-> "changes", added |-> missing_files, removed |-> invalid_files]
        ELSE [kind |-> "boolean", value |-> UpdateStatusChanged(dir, doms)]

(***************************************************************************)
(* Nginx: the paths built by the constructor, link and unlink              *)
(***************************************************************************)
LOCAL_DOMAINS == <<"l", "o", "c", "a", "l", "-", "d", "o", "m", "a", "i", "n", "s">>

\* The settings `init` creates, with the install path it found: /n
DEFAULT_SETTINGS == [nginx |-> <<"/", "n">>, nginx_folder_name |-> LOCAL_DOMAINS]

\* this.nginx_conf = `${config.settings.nginx}/conf/nginx.conf`
nginx_conf(st) ==
    st.nginx \o <<"/", "c", "o", "n", "f", "/", "n", "g", "i", "n", "x", ".", "c", "o", "n", "f">>

\* this.domains_folder = `${config.settings.nginx}/conf/local-domains`
domains_folder(st) == st.nginx \o <<"/", "c", "o", "n", "f", "/">> \o LOCAL_DOMAINS

\* this.include_symbol = `include ${config.settings.nginx_folder_name}/*.conf;`
include_symbol(st) ==
    <<"i", "n", "c", "l", "u", "d", "e", " ">> \o st.nginx_folder_name
        \o <<"/", "*", ".", "c", "o", "n", "f", ";">>

\* Nginx.domainPath
domainPath(st, d) == domains_folder(st) \o <<"/">> \o file_name(d)

\* const common_config_file = `${this.domains_folder}/${COMMON_CONFIG_FILE}`
commonConfigPath(st) == domains_folder(st) \o <<"/">> \o COMMON_CONFIG_FILE

\* The text has the pattern at position i.
MatchesAt(text, i, pattern) ==
    /\ i >= 1
    /\ i + Len(pattern) - 1 <= Len(text)
    /\ SubSeq(text, i, i + Len(pattern) - 1) = pattern

\* lodash includes(string, target)
includes(text, target) == \E i \in 1..(Len(text) + 1) : MatchesAt(text, i, target)

\* The number of places where the text has the pattern.
Occurrences(text, pattern) ==
    Cardinality({i \in 1..Len(text) : MatchesAt(text, i, pattern)})

HTTP_OPEN == <<"h", "t", "t", "p", " ", "{">>

\* ^ of a RegExp with the m flag: the start of the text or of a line
LineStart(text, i) == i = 1 \/ text[i - 1] \in LineTerminators

RECURSIVE ReplaceHttpOpen(_, _, _)
\* replace(file_content, /^(http {)/gm, `$1\n    ${include_symbol}`): the text
\* from position i on, with the new line put after every match
ReplaceHttpOpen(text, i, new_line) ==
    IF i > Len(text) THEN <<>>
    ELSE IF LineStart(text, i) /\ MatchesAt(text, i, HTTP_OPEN)
         THEN HTTP_OPEN \o new_line \o ReplaceHttpOpen(text, i + Len(HTTP_OPEN), new_line)
         ELSE <<text[i]>> \o ReplaceHttpOpen(text, i + 1, new_line)

\* replace(file_content, include_symbol, ""): String.prototype.replace with a
\* string pattern takes out the first occurrence only
RemoveFirst(text, pattern) ==
    IF ~includes(text, pattern) THEN text
    ELSE LET i == CHOOSE k \in 1..Len(text) :
                    /\ MatchesAt(text, k, pattern)
                    /\ \A j \in 1..(k - 1) : ~MatchesAt(text, j, pattern)
         IN  Sub(text, 1, i - 1) \o Sub(text, i + Len(pattern), Len(text))

\* Nginx.link: false when the file has the include symbol
LinkResult(conf, st) == ~includes(conf, include_symbol(st))

\* Nginx.link: the text of nginx.conf afterwards
LinkText(conf, st) ==
    IF includes(conf, include_symbol(st)) THEN conf
    ELSE ReplaceHttpOpen(conf, 1, <<"\n", " ", " ", " ", " ">> \o include_symbol(st))

\* Nginx.unlink: false when the file does not have the include symbol
UnlinkResult(conf, st) == includes(conf, include_symbol(st))

\* Nginx.unlink: the text of nginx.conf afterwards
UnlinkText(conf, st) ==
    IF ~includes(conf, include_symbol(st)) THEN conf
    ELSE RemoveFirst(conf, include_symbol(st))

(***************************************************************************)
(* Errors: what a call ends with                                           *)
(***************************************************************************)
\* A call that threw this error, and a call that returned this value.
Threw(error) == [thrown |-> TRUE, error |-> error]

Returned(value) == [thrown |-> FALSE, value |-> value]

\* The classes that extend ApplicationError.
ApplicationErrors ==
    {"NotFound", "AlreadyExists", "IOError", "ValidationError", "NetworkError", "UnknownError"}

\* A tryOrThrow that throws its own error for whatever was thrown.
tryOrThrowWrapsAll(result, error) ==
    IF result.thrown THEN Threw(error) ELSE result

\* A tryOrThrow that throws again what was thrown.
tryOrThrowRethrows(result, error) == result

\* tryOrThrow(fn, error): an ApplicationError is thrown again as it is,
\* anything else thrown is replaced by `error`
tryOrThrow(result, error) ==
    IF result.thrown /\ result.error \notin ApplicationErrors THEN Threw(error) ELSE result

(***************************************************************************)
(* Config and the proxy process, before anything has run                   *)
(***************************************************************************)
\* Nothing is at the path of config.json.
NoDocument == [exists |-> FALSE]

\* `${FileSystem.root}/config.json`
CONFIG_PATH == <<"/", "c", "o", "n", "f", "i", "g", ".", "j", "s", "o", "n">>

\* JSON.stringify of an object whose values are strings, numbers or
\* booleans, with the replacer of encodeClassToJSON: the properties whose
\* key is to be ignored are left out
EncodeObject(obj, ignoreProperties) ==
    [k \in (DOMAIN obj) \ ignoreProperties |-> obj[k]]

\* encodeClassToJSON(config, ignoreProperties): the JSON value written for
\* a Config, the replacer applied to its own properties and to those of
\* every object below it
encodeClassToJSON(config, ignoreProperties) ==
    [k \in (DOMAIN config) \ ignoreProperties |->
        CASE k = "domains" ->
                [i \in 1..Len(config.domains) |->
                    EncodeObject(config.domains[i], ignoreProperties)]
          [] k = "path" -> config.path
          [] OTHER -> EncodeObject(config[k], ignoreProperties)]

\* Config.toJSONString
toJSONString(config) == encodeClassToJSON(config, {})

\* new Config(domains, new FileSystem(), settings): the object with its own
\* properties; a FileSystem has none
ConfigObject(doms, st) ==
    [domains |-> doms, files |-> <<>>, settings |-> st, path |-> CONFIG_PATH]

\* Domain.fromObject
DomainFromObject(obj) ==
    DomainObject(obj.source, obj.destination,
                 IF "status" \in DOMAIN obj THEN <<obj.status>> ELSE <<>>)

\* Config.fromJSON on the parsed value: json.domains.map throws a TypeError
\* when there is no domains array, and so does destination.replace in the
\* Domain constructor when a domain has no destination
ConfigFromJSON(json) ==
    IF "domains" \notin DOMAIN json THEN Threw("TypeError")
    ELSE IF \E i \in 1..Len(json.domains) : "destination" \notin DOMAIN json.domains[i]
         THEN Threw("TypeError")
         ELSE Returned(ConfigObject([i \in 1..Len(json.domains) |->
                                        DomainFromObject(json.domains[i])],
                                    json.settings))

\* Config.load: what it returns or throws for what is at the path
ConfigLoadResult(doc) ==
    tryOrThrow(IF ~doc.exists THEN Threw("NotFound")
               ELSE IF doc.kind = "unreadable" THEN Threw("Error")
               ELSE IF doc.kind = "text" THEN Threw("SyntaxError")
               ELSE ConfigFromJSON(doc.value),
               "IOError")

\* The proxy process is not running and nothing has been executed.
NoProcess == [running |-> FALSE, executed |-> <<>>, isWindows |-> FALSE]

(***************************************************************************)
(* Inputs of the hosts runs.                                               *)
(***************************************************************************)
\* Declared domains: hostnames a, b, c routed to ip:port destinations.
DomainPool ==
    { Domain(<<"a">>, <<"1", ":", "8">>, ACTIVE),
      Domain(<<"a">>, <<"1", ":", "8">>, INACTIVE),
      Domain(<<"b">>, <<"1", ":", "8">>, ACTIVE),
      Domain(<<"c">>, <<"2", ":", "8">>, INACTIVE) }

\* Config.domains: no two domains share a source.
DomainConfigs ==
    { ds \in UNION {[1..n -> DomainPool] : n \in 0..MaxDomains} :
        \A i, j \in 1..Len(ds) : ds[i].source = ds[j].source => i = j }

\* Lines a hosts file can hold before the tool runs.
HostLinePool ==
    { <<>>,                                                            \* blank
      <<"9", " ", "x", " ", "#", " ", "c">>,                           \* someone else's entry
      <<"1", " ", "a", " ", "#", " ", "v", "i", "d", "o", "s">>,       \* ours: a -> 1
      <<"2", " ", "a", " ", "#", "v", "i", "d", "o", "s">>,            \* ours, stale ip
      <<"1", " ", "b", " ", "#", " ", "v", "i", "d", "o", "s">>,       \* ours: b -> 1
      <<"1", " ", "z", " ", "#", " ", "v", "i", "d", "o", "s", "\r">>, \* ours, CRLF file
      <<"1", " ", "a", " ", "#", " ", "v", "i", "d", "o", "s", " ">> } \* not ours: comment is "vidos "

HostFileTexts ==
    { JoinLines(ls) : ls \in UNION {[1..n -> HostLinePool] : n \in 1..MaxHostLines} }

NoCall == [op |-> "none", ret |-> FALSE]

\* No command runs and none has run.
NoCommand ==
    [pc |-> "idle", op |-> "none", source |-> <<>>, domain |-> Null, config |-> <<>>,
     hosts |-> "todo", nginx |-> "todo", tasks |-> <<>>, ret |-> "none", failed |-> FALSE]

Called(op, arg, ret) ==
    [op |-> op, arg |-> arg, ret |-> ret, prev |-> [op |-> last.op, ret |-> last.ret]]

(***************************************************************************)
(* The hosts file under update, add and remove.                            *)
(***************************************************************************)
InitHosts ==
    /\ domains \in DomainConfigs
    /\ hostsFile \in HostFileTexts
    /\ nginxDir = <<>>
    /\ last = [op |-> "none", arg |-> <<>>, ret |-> FALSE, prev |-> NoCall]
    /\ before = <<>>
    /\ calls = 0
    /\ cmd = NoCommand
    /\ writes = 0
    /\ settings = DEFAULT_SETTINGS
    /\ nginxConf = <<>>
    /\ document = NoDocument
    /\ process = NoProcess

\* Hosts.update
HostsUpdate ==
    /\ calls < MaxCalls
    /\ hostsFile' = HostsUpdateText(domains, hostsFile)
    /\ last' = Called("update", <<>>, HostsUpdateResult(domains, hostsFile))
    /\ writes' = HostsUpdateWrites(domains, hostsFile)
    /\ before' = hostsFile
    /\ calls' = calls + 1
    /\ UNCHANGED <<domains, nginxDir, cmd,
                 settings, nginxConf, document, process>>

\* Hosts.add(HostEntry.fromDomain(domain)), as the commands call it, on the
\* file the run starts from
HostsAdd ==
    /\ calls = 0
    /\ \E d \in Range(domains) :
        LET host == HostEntryFromDomain(d)
        IN  /\ hostsFile' = HostsAddText(hostsFile, host)
            /\ last' = Called("add", host, HostsAddResult(hostsFile, host))
            /\ writes' = HostsAddWrites(hostsFile, host)
    /\ before' = hostsFile
    /\ calls' = calls + 1
    /\ UNCHANGED <<domains, nginxDir, cmd,
                 settings, nginxConf, document, process>>

\* Hosts.remove(HostEntry.fromDomain(domain)), as the commands call it, on
\* the file the run starts from
HostsRemove ==
    /\ calls = 0
    /\ \E d \in Range(domains) :
        LET host == HostEntryFromDomain(d)
        IN  /\ hostsFile' = HostsRemoveText(hostsFile, host)
            /\ last' = Called("remove", host, HostsRemoveResult(hostsFile, host))
            /\ writes' = HostsRemoveWrites(hostsFile, host)
    /\ before' = hostsFile
    /\ calls' = calls + 1
    /\ UNCHANGED <<domains, nginxDir, cmd,
                 settings, nginxConf, document, process>>

NextHosts == HostsUpdate \/ HostsAdd \/ HostsRemove

SpecHosts == InitHosts /\ [][NextHosts]_vars

(***************************************************************************)
(* Inputs of the proxy runs.                                               *)
(***************************************************************************)
\* A line someone wrote at the top of a domain's file by hand.
HandNote == <<"#", " ", "n">>

CommentAll(text) ==
    LET ls == SplitLines(text) IN JoinLines([i \in 1..Len(ls) |-> <<"#">> \o ls[i]])

\* What the file of a declared domain can hold before the tool runs: (1) the
\* block as created, (2) the block commented out, (3) the block under a
\* hand-written comment line (some lines commented, some not), and (4) that
\* file commented out.
DomainFileText(d, k) ==
    CASE k = 1 -> domainServerFileContent(d)
      [] k = 2 -> CommentAll(domainServerFileContent(d))
      [] k = 3 -> HandNote \o <<"\n">> \o domainServerFileContent(d)
      [] OTHER -> CommentAll(HandNote \o <<"\n">> \o domainServerFileContent(d))

FileTextKinds == {1, 2, 3, 4}

PoolFileNames == {file_name(d) : d \in DomainPool}

PoolDomainOf(name) == CHOOSE d \in DomainPool : file_name(d) = name

\* The common file with a setting someone added to it by hand.
EditedCommonConfig ==
    COMMON_CONFIG \o <<"\n", "g", "z", "i", "p", " ", "o", "n", ";">>

\* The directories a run can start from: any subset of the pool's files and
\* of the common file; a declared domain's file holds any of the four texts,
\* a file no declared domain owns holds the block it was created with, and
\* the common file holds the settings as written or as edited by hand.
ManagedDirs(doms) ==
    LET declared == Range(domainFileNames(doms))
        Text(n, k) == IF n = COMMON_CONFIG_FILE
                      THEN (IF k = 1 THEN COMMON_CONFIG ELSE EditedCommonConfig)
                      ELSE DomainFileText(PoolDomainOf(n), k)
    IN  UNION { { [n \in names |-> Text(n, kind[n])] :
                    kind \in { k \in [names -> FileTextKinds] :
                                 \A n \in names :
                                    /\ n = COMMON_CONFIG_FILE => k[n] \in {1, 2}
                                    /\ (n # COMMON_CONFIG_FILE /\ n \notin declared) => k[n] = 1 } }
                : names \in SUBSET (PoolFileNames \cup {COMMON_CONFIG_FILE}) }

(***************************************************************************)
(* The managed directory under update and the single-domain operations.    *)
(***************************************************************************)
InitNginx ==
    /\ domains \in DomainConfigs
    /\ hostsFile = <<>>
    /\ nginxDir \in ManagedDirs(domains)
    /\ last = [op |-> "none", arg |-> <<>>, ret |-> FALSE, prev |-> NoCall]
    /\ before = <<>>
    /\ calls = 0
    /\ cmd = NoCommand
    /\ writes = 0
    /\ settings = DEFAULT_SETTINGS
    /\ nginxConf = <<>>
    /\ document = NoDocument
    /\ process = NoProcess

\* Nginx.update, on the directory the run starts from and again on the
\* directory an update left
NginxUpdate ==
    /\ calls < MaxCalls
    /\ last.op \in {"none", "update"}
    /\ nginxDir' = NginxUpdateDir(nginxDir, domains)
    /\ last' = Called("update", <<>>, NginxUpdateResult(nginxDir, domains))
    /\ before' = nginxDir
    /\ calls' = calls + 1
    /\ UNCHANGED <<domains, hostsFile, cmd, writes,
                 settings, nginxConf, document, process>>

\* Nginx.addDomain(domain), for a domain that is declared or one that is not
\* declared yet, on the directory the run starts from
NginxAddDomain ==
    /\ calls = 0
    /\ \E d \in DomainPool :
        /\ nginxDir' = AddDomainDir(nginxDir, d)
        /\ last' = Called("addDomain", d, AddDomainResult(nginxDir, d))
    /\ before' = nginxDir
    /\ calls' = calls + 1
    /\ UNCHANGED <<domains, hostsFile, cmd, writes,
                 settings, nginxConf, document, process>>

\* Nginx.removeDomain(domain) for a declared domain, on the directory the run
\* starts from
NginxRemoveDomain ==
    /\ calls = 0
    /\ \E d \in Range(domains) :
        /\ nginxDir' = RemoveDomainDir(nginxDir, d)
        /\ last' = Called("removeDomain", d, RemoveDomainResult(nginxDir, d))
    /\ before' = nginxDir
    /\ calls' = calls + 1
    /\ UNCHANGED <<domains, hostsFile, cmd, writes,
                 settings, nginxConf, document, process>>

\* Nginx.disableDomain(domain) for a declared domain; readLines of a missing
\* file throws and tryOrThrow turns it into an IOError
NginxDisableDomain ==
    /\ calls = 0
    /\ \E d \in Range(domains) :
        IF FilesExists(nginxDir, file_name(d))
        THEN /\ nginxDir' = FilesWrite(nginxDir, file_name(d),
                                       DisableDomainText(nginxDir[file_name(d)]))
             /\ last' = Called("disableDomain", d, DisableDomainResult(nginxDir[file_name(d)]))
        ELSE /\ nginxDir' = nginxDir
             /\ last' = Called("disableDomain", d, "IOError")
    /\ before' = nginxDir
    /\ calls' = calls + 1
    /\ UNCHANGED <<domains, hostsFile, cmd, writes,
                 settings, nginxConf, document, process>>

\* Nginx.enableDomain(domain) for a declared domain
NginxEnableDomain ==
    /\ calls = 0
    /\ \E d \in Range(domains) :
        IF FilesExists(nginxDir, file_name(d))
        THEN /\ nginxDir' = FilesWrite(nginxDir, file_name(d),
                                       EnableDomainText(nginxDir[file_name(d)]))
             /\ last' = Called("enableDomain", d, EnableDomainResult(nginxDir[file_name(d)]))
        ELSE /\ nginxDir' = nginxDir
             /\ last' = Called("enableDomain", d, "IOError")
    /\ before' = nginxDir
    /\ calls' = calls + 1
    /\ UNCHANGED <<domains, hostsFile, cmd, writes,
                 settings, nginxConf, document, process>>

\* Nginx.createCommonDomainConfig, on the directory the run starts from
NginxCreateCommonDomainConfig ==
    /\ calls = 0
    /\ nginxDir' = createCommonDomainConfig(nginxDir)
    /\ last' = Called("createCommonDomainConfig", <<>>, CreateCommonResult(nginxDir))
    /\ before' = nginxDir
    /\ calls' = calls + 1
    /\ UNCHANGED <<domains, hostsFile, cmd, writes,
                 settings, nginxConf, document, process>>

NextNginx ==
    \/ NginxUpdate
    \/ NginxCreateCommonDomainConfig
    \/ NginxAddDomain
    \/ NginxRemoveDomain
    \/ NginxDisableDomain
    \/ NginxEnableDomain

SpecNginx == InitNginx /\ [][NextNginx]_vars

(***************************************************************************)
(* Properties of the hosts file.                                           *)
(***************************************************************************)
HostsOps == {"update", "add", "remove"}

\* The lines of a text that are not ours, in order.
ForeignLines(text) ==
    LET lines == SplitLines(text)
    IN  SelectIdx(lines, {i \in 1..Len(lines) : HostEntryFromString(lines[i]) = Null}, 1)

\* The text that is left of a hosts file when our lines are taken out of it.
ForeignText(text) == JoinLines(ForeignLines(text))

\* The entries of the ACTIVE declared domains.
ActiveEntrySet ==
    { HostEntry(removePortFromIp(d.destination), d.source) :
        d \in {x \in Range(domains) : x.status = ACTIVE} }

C2_ForeignLinesKept ==
    last.op \in HostsOps => ForeignText(hostsFile) = ForeignText(before)

\* A remove deleted a line of ours from a file that also holds a line of
\* someone else.
C2_Witness ==
    /\ last.op = "remove"
    /\ last.ret = TRUE
    /\ hostsFile # before
    /\ \E i \in 1..Len(ForeignLines(before)) : ForeignLines(before)[i] # <<>>

C18_RemoveTakesOutEveryMatch ==
    last.op = "remove" =>
        LET lines == SplitLines(before)
            others == {i \in 1..Len(lines) : HostEntryFromString(lines[i]) # last.arg}
        IN  IF others = 1..Len(lines)
            THEN last.ret = FALSE /\ hostsFile = before /\ writes = 0
            ELSE /\ last.ret = TRUE
                 /\ writes = 1
                 /\ hostsFile = JoinLines(SelectIdx(lines, others, 1))
                 /\ ~HostsExists(hostsFile, last.arg)

\* A remove took out two lines that both read as the target.
C18_Witness ==
    /\ last.op = "remove"
    /\ last.ret = TRUE
    /\ Cardinality({i \in 1..Len(SplitLines(before)) :
                      HostEntryFromString(SplitLines(before)[i]) = last.arg}) = 2
    /\ ~HostsExists(hostsFile, last.arg)

FileLines(dir, d) == SplitLines(dir[file_name(d)])

\* Some lines of the text are commented out and some are not.
MixedText(text) ==
    someCommentedOut(SplitLines(text)) /\ ~everyCommentedOut(SplitLines(text))

\* The last call was this single-domain operation on a file that was there.
ActedOnFile(op) == last.op = op /\ FilesExists(before, file_name(last.arg))

\* The file names of the declared domains.
DeclaredNames == Range(domainFileNames(domains))

\* The files of a directory that are neither a declared domain's nor the
\* common file.
Orphans(dir) == (DOMAIN dir) \ (DeclaredNames \cup {COMMON_CONFIG_FILE})

\* The declared domains whose file went from disabled to not disabled, or
\* back, between two directories that both hold it.
Flipped(dirA, dirB) ==
    { d \in Range(domains) :
        everyCommentedOut(FileLines(dirA, d)) # everyCommentedOut(FileLines(dirB, d)) }

\* C4: after Nginx.update the file of every declared domain matches its
\* status: no line is commented out if the domain is ACTIVE, every line is
\* commented out if it is INACTIVE, whatever the file held before.
C4_StructureMatchesStatus ==
    last.op = "update" =>
        \A d \in Range(domains) :
            IF d.status = ACTIVE
            THEN ~someCommentedOut(FileLines(nginxDir, d))
            ELSE everyCommentedOut(FileLines(nginxDir, d))

\* C5: on the file as created, disableDomain returns true and leaves every
\* line commented out; on that disabled file disableDomain returns false
\* and changes nothing, and enableDomain returns true and restores the file
\* as created; on the file as created enableDomain returns false.
C5_EnableDisableSymmetry ==
    /\ ActedOnFile("disableDomain") =>
        LET f == file_name(last.arg)
            fresh == domainServerFileContent(last.arg)
        IN  /\ before[f] = fresh =>
                /\ last.ret = TRUE
                /\ everyCommentedOut(SplitLines(nginxDir[f]))
                /\ nginxDir[f] = DisableDomainText(fresh)
            /\ before[f] = DisableDomainText(fresh) =>
                /\ last.ret = FALSE
                /\ nginxDir = before
    /\ ActedOnFile("enableDomain") =>
        LET f == file_name(last.arg)
            fresh == domainServerFileContent(last.arg)
        IN  /\ before[f] = DisableDomainText(fresh) =>
                /\ last.ret = TRUE
                /\ nginxDir[f] = fresh
            /\ before[f] = fresh =>
                /\ last.ret = FALSE
                /\ nginxDir = before

\* enableDomain ran on the file that disableDomain leaves of the file as
\* created, and brought the file as created back.
C5_Witness ==
    /\ ActedOnFile("enableDomain")
    /\ before[file_name(last.arg)] = DisableDomainText(domainServerFileContent(last.arg))
    /\ before[file_name(last.arg)] # domainServerFileContent(last.arg)
    /\ last.ret = TRUE
    /\ nginxDir[file_name(last.arg)] = domainServerFileContent(last.arg)

\* C6: when every line of the file is commented out, enableDomain takes
\* exactly one leading '#' off every line, so a line that began with two
\* still begins with one.
C6_StripsOneMarker ==
    (ActedOnFile("enableDomain") /\ everyCommentedOut(FileLines(before, last.arg)))
        => FileLines(nginxDir, last.arg)
             = [i \in 1..Len(FileLines(before, last.arg)) |->
                  removeFirst(FileLines(before, last.arg)[i])]

\* C7, as stated: on a file with commented and uncommented lines, both
\* enableDomain and disableDomain return false and leave the file as it is.
C7_MixedBothNoOps ==
    (/\ ActedOnFile("enableDomain") \/ ActedOnFile("disableDomain")
     /\ MixedText(before[file_name(last.arg)]))
        => (last.ret = FALSE /\ nginxDir = before)

\* C7, amended: on a file with commented and uncommented lines, enableDomain
\* returns false and leaves the file as it is, and disableDomain returns true
\* and puts a '#' in front of every line.
C7_MixedEnableNoOpDisableActs ==
    /\ (ActedOnFile("enableDomain") /\ MixedText(before[file_name(last.arg)]))
        => (last.ret = FALSE /\ nginxDir = before)
    /\ (ActedOnFile("disableDomain") /\ MixedText(before[file_name(last.arg)]))
        => /\ last.ret = TRUE
           /\ FileLines(nginxDir, last.arg)
                = [i \in 1..Len(FileLines(before, last.arg)) |->
                     commentOut(FileLines(before, last.arg)[i])]

\* disableDomain ran on a file with commented and uncommented lines and
\* rewrote it.
C7_Witness ==
    /\ ActedOnFile("disableDomain")
    /\ MixedText(before[file_name(last.arg)])
    /\ last.ret = TRUE
    /\ nginxDir # before

\* C8: Nginx.update deletes the files that are neither a declared domain's
\* nor the common file, and no other file; when there are such files it
\* returns them, each once, under `removed`.
C8_OrphansDeletedAndReported ==
    last.op = "update" =>
        /\ (DOMAIN before) \ (DOMAIN nginxDir) = Orphans(before)
        /\ Orphans(nginxDir) = {}
        /\ Orphans(before) # {} =>
            /\ last.ret.kind = "changes"
            /\ Range(last.ret.removed) = Orphans(before)
            /\ Len(last.ret.removed) = Cardinality(Orphans(before))

\* The update ran on a directory that held two orphans next to the common
\* file and a declared domain's file, and those two stayed.
C8_Witness ==
    /\ last.op = "update"
    /\ Cardinality(Orphans(before)) >= 2
    /\ COMMON_CONFIG_FILE \in DOMAIN before
    /\ DeclaredNames \cap DOMAIN before # {}
    /\ (DeclaredNames \cap DOMAIN before) \cup {COMMON_CONFIG_FILE} \subseteq DOMAIN nginxDir

\* C9: Nginx.update returns under `added` the file name of every declared
\* domain that had no file before the call and has one after it.
C9_CreatedFilesReported ==
    last.op = "update" =>
        LET created == (DeclaredNames \cap DOMAIN nginxDir) \ (DOMAIN before)
        IN  created # {} =>
                /\ last.ret.kind = "changes"
                /\ created \subseteq Range(last.ret.added)

\* C10: when Nginx.update neither creates nor deletes a file, it returns a
\* boolean, true exactly when the call took the file of some declared domain
\* from disabled to not disabled or back.
C10_BooleanIffAnyFlip ==
    (last.op = "update" /\ DOMAIN nginxDir = DOMAIN before)
        => /\ last.ret.kind = "boolean"
           /\ last.ret.value = (Flipped(before, nginxDir) # {})

\* The text a domain's file holds once its status task has run on this text.
AfterStatusTask(d, text) ==
    IF d.status = ACTIVE THEN EnableDomainText(text) ELSE DisableDomainText(text)

\* C20: Nginx.addDomain returns false and leaves the directory as it is when
\* the domain's file is there, whatever it holds; otherwise it writes the
\* server block to that file, touches no other file and returns true.  So
\* too under Nginx.update: a declared domain's file that was there is never
\* replaced by the server block, it holds what enable or disable makes of
\* its old text, and a file that was not there holds what they make of the
\* server block.
C20_AddNeverOverwrites ==
    /\ last.op = "addDomain" =>
        IF FilesExists(before, file_name(last.arg))
        THEN last.ret = FALSE /\ nginxDir = before
        ELSE /\ last.ret = TRUE
             /\ DOMAIN nginxDir = DOMAIN before \cup {file_name(last.arg)}
             /\ nginxDir[file_name(last.arg)] = domainServerFileContent(last.arg)
             /\ \A n \in DOMAIN before : nginxDir[n] = before[n]
    /\ last.op = "update" =>
        \A d \in Range(domains) :
            /\ FilesExists(nginxDir, file_name(d))
            /\ nginxDir[file_name(d)] =
                 AfterStatusTask(d, IF FilesExists(before, file_name(d))
                                    THEN before[file_name(d)]
                                    ELSE domainServerFileContent(d))

\* addDomain was called for a domain whose file held a hand-written line
\* above the server block, and returned false.
C20_Witness ==
    /\ last.op = "addDomain"
    /\ last.ret = FALSE
    /\ FilesExists(before, file_name(last.arg))
    /\ MixedText(before[file_name(last.arg)])
    /\ nginxDir = before

\* C21: Nginx.createCommonDomainConfig returns false and leaves the directory
\* as it is when the common file is there, whatever it holds, and otherwise
\* writes the common settings to it and returns true; after Nginx.update the
\* common file is there, holding what it held if it was there before, and it
\* is in neither list of the Changes returned.
C21_CommonFileKept ==
    /\ last.op = "createCommonDomainConfig" =>
        IF FilesExists(before, COMMON_CONFIG_FILE)
        THEN last.ret = FALSE /\ nginxDir = before
        ELSE /\ last.ret = TRUE
             /\ nginxDir = FilesWrite(before, COMMON_CONFIG_FILE, COMMON_CONFIG)
    /\ last.op = "update" =>
        /\ FilesExists(nginxDir, COMMON_CONFIG_FILE)
        /\ nginxDir[COMMON_CONFIG_FILE] =
             (IF FilesExists(before, COMMON_CONFIG_FILE) THEN before[COMMON_CONFIG_FILE]
              ELSE COMMON_CONFIG)
        /\ last.ret.kind = "changes" =>
            /\ ~arrayContains(last.ret.added, COMMON_CONFIG_FILE)
            /\ ~arrayContains(last.ret.removed, COMMON_CONFIG_FILE)

\* An update that deleted an orphan ran on a directory whose common file had
\* been edited by hand, and the edited file is still there.
C21_Witness ==
    /\ last.op = "update"
    /\ last.prev.op = "none"
    /\ FilesExists(before, COMMON_CONFIG_FILE)
    /\ before[COMMON_CONFIG_FILE] = EditedCommonConfig
    /\ last.ret.kind = "changes"
    /\ last.ret.removed # <<>>
    /\ nginxDir[COMMON_CONFIG_FILE] = EditedCommonConfig

(***************************************************************************)
(* The create, enable, disable and delete commands, one at a time.  The    *)
(* store is config.json, held in `domains`; a command loads it, validates, *)
(* starts the hosts operation and the proxy operation together, waits for  *)
(* both, refreshes the server and saves the store.                         *)
(***************************************************************************)
\* Hostnames and destinations given on the command line.
CommandSources == { <<>>, <<"a">>, <<"a", "-", "b">> }

CommandDestinations == { <<"1", ":", "8">>, <<"b", "-", "1", ":", "8">> }

\* The <source> <destination> pairs given to create.
CreateArguments ==
    { args \in CommandSources \X CommandDestinations :
        args[1] \in {<<>>, <<"a", "-", "b">>} => args[2] = <<"1", ":", "8">> }

\* Hosts files no line of which is ours.
CommandHostFiles == { <<>>, <<"9", " ", "x", " ", "#", " ", "c">> }

\* A lookup that finds no domain.
domainByNameNever(config, source) == Null

\* Config.domainByName: the first domain with that source, or Null
domainByName(config, source) ==
    IF \E i \in 1..Len(config) : config[i].source = source
    THEN config[CHOOSE i \in 1..Len(config) :
                  /\ config[i].source = source
                  /\ \A j \in 1..(i - 1) : config[j].source # source]
    ELSE Null

\* The config with the status of domainByName(config, source) assigned.
WithStatus(config, source, status) ==
    LET first == CHOOSE i \in 1..Len(config) :
                    /\ config[i].source = source
                    /\ \A j \in 1..(i - 1) : config[j].source # source
    IN  [config EXCEPT ![first] = Domain(config[first].source, config[first].destination, status)]

\* lodash remove(config.domains, domain): the domains that do not match it
RemoveMatching(config, domain) ==
    SelectIdx(config, {i \in 1..Len(config) : config[i] # domain}, 1)

\* What the stores held when the command started.
Snapshot == [domains |-> domains, hostsFile |-> hostsFile, nginxDir |-> nginxDir]

\* What a command that throws ends with.
CommandErrors == {"AlreadyExists", "NotFound", "IOError"}

\* A command that is past validation and about to start its two operations.
Started(op, source, domain) ==
    [pc |-> "files", op |-> op, source |-> source, domain |-> domain, config |-> domains,
     hosts |-> "todo", nginx |-> "todo", tasks |-> <<>>, ret |-> "running",
     failed |-> cmd.failed]

\* A command that ended in validation: an error thrown or an early return.
Ended(op, source, ret) ==
    [pc |-> "idle", op |-> op, source |-> source, domain |-> domainByName(domains, source),
     config |-> domains, hosts |-> "todo", nginx |-> "todo", tasks |-> <<>>, ret |-> ret,
     failed |-> cmd.failed \/ ret \in CommandErrors]

\* CreateCommand.action up to saveToFiles: Config.load and validateDomain
CreateCommandAction ==
    /\ cmd.pc = "idle"
    /\ calls < MaxCommands
    /\ \E args \in CreateArguments :
        LET source == args[1]
            destination == args[2]
        IN  cmd' = IF domainByName(domains, source) # Null
                   THEN Ended("create", source, "AlreadyExists")
                   ELSE Started("create", source, Domain(source, destination, ACTIVE))
    /\ before' = Snapshot
    /\ calls' = calls + 1
    /\ UNCHANGED <<domains, hostsFile, nginxDir, last, writes,
                 settings, nginxConf, document, process>>

\* An enable command without the return for a domain that is ACTIVE already.
EnableCommandActionAgain ==
    /\ cmd.pc = "idle"
    /\ calls < MaxCommands
    /\ \E source \in CommandSources :
        LET validatedDomain == domainByName(domains, source)
        IN  cmd' = IF validatedDomain = Null THEN Ended("enable", source, "NotFound")
                   ELSE Started("enable", source, validatedDomain)
    /\ before' = Snapshot
    /\ calls' = calls + 1
    /\ UNCHANGED <<domains, hostsFile, nginxDir, last, writes,
                 settings, nginxConf, document, process>>

\* EnableCommand.action up to enableDomain
EnableCommandAction ==
    /\ cmd.pc = "idle"
    /\ calls < MaxCommands
    /\ \E source \in CommandSources :
        LET validatedDomain == domainByName(domains, source)
        IN  cmd' = IF validatedDomain = Null THEN Ended("enable", source, "NotFound")
                   ELSE IF validatedDomain.status = ACTIVE
                        THEN Ended("enable", source, "already")
                        ELSE Started("enable", source, validatedDomain)
    /\ before' = Snapshot
    /\ calls' = calls + 1
    /\ UNCHANGED <<domains, hostsFile, nginxDir, last, writes,
                 settings, nginxConf, document, process>>

\* DisableCommand.action up to disableDomain
DisableCommandAction ==
    /\ cmd.pc = "idle"
    /\ calls < MaxCommands
    /\ \E source \in CommandSources :
        LET validatedDomain == domainByName(domains, source)
        IN  cmd' = IF validatedDomain = Null THEN Ended("disable", source, "NotFound")
                   ELSE IF validatedDomain.status = INACTIVE
                        THEN Ended("disable", source, "already")
                        ELSE Started("disable", source, validatedDomain)
    /\ before' = Snapshot
    /\ calls' = calls + 1
    /\ UNCHANGED <<domains, hostsFile, nginxDir, last, writes,
                 settings, nginxConf, document, process>>

\* DeleteCommand.action up to removeFromFiles
DeleteCommandAction ==
    /\ cmd.pc = "idle"
    /\ calls < MaxCommands
    /\ \E source \in CommandSources :
        LET domain == domainByName(domains, source)
        IN  cmd' = IF domain = Null THEN Ended("delete", source, "NotFound")
                   ELSE Started("delete", source, domain)
    /\ before' = Snapshot
    /\ calls' = calls + 1
    /\ UNCHANGED <<domains, hostsFile, nginxDir, last, writes,
                 settings, nginxConf, document, process>>

\* The hosts operation of the command: Hosts.add for create and enable,
\* Hosts.remove for disable and delete
CommandHostsText(op, text, host) ==
    IF op \in {"create", "enable"} THEN HostsAddText(text, host)
    ELSE HostsRemoveText(text, host)

\* The proxy operation of the command; enableDomain and disableDomain throw
\* when the file is not there to read
CommandNginxThrows(op, dir, domain) ==
    op \in {"enable", "disable"} /\ ~FilesExists(dir, file_name(domain))

CommandNginxDir(op, dir, domain) ==
    CASE op = "create" -> AddDomainDir(dir, domain)
      [] op = "delete" -> RemoveDomainDir(dir, domain)
      [] op = "enable" -> FilesWrite(dir, file_name(domain),
                                     EnableDomainText(dir[file_name(domain)]))
      [] OTHER -> FilesWrite(dir, file_name(domain),
                             DisableDomainText(dir[file_name(domain)]))

\* The hosts promise settles: the operation is done, or it threw an IOError
CommandHostsTask ==
    /\ cmd.pc = "files"
    /\ cmd.hosts = "todo"
    /\ \/ /\ hostsFile' = CommandHostsText(cmd.op, hostsFile, HostEntryFromDomain(cmd.domain))
          /\ cmd' = [cmd EXCEPT !.hosts = "ok"]
       \/ /\ hostsFile' = hostsFile
          /\ cmd' = [cmd EXCEPT !.hosts = "fail"]
    /\ UNCHANGED <<domains, nginxDir, last, before, calls, writes,
                 settings, nginxConf, document, process>>

\* The proxy promise settles
CommandNginxTask ==
    /\ cmd.pc = "files"
    /\ cmd.nginx = "todo"
    /\ \/ /\ ~CommandNginxThrows(cmd.op, nginxDir, cmd.domain)
          /\ nginxDir' = CommandNginxDir(cmd.op, nginxDir, cmd.domain)
          /\ cmd' = [cmd EXCEPT !.nginx = "ok"]
       \/ /\ nginxDir' = nginxDir
          /\ cmd' = [cmd EXCEPT !.nginx = "fail"]
    /\ UNCHANGED <<domains, hostsFile, last, before, calls, writes,
                 settings, nginxConf, document, process>>

\* A join that goes on as soon as the hosts operation is done.
CommandFilesDoneHostsOnly ==
    /\ cmd.pc = "files"
    /\ cmd.hosts = "ok"
    /\ cmd' = [cmd EXCEPT !.pc = "refresh"]
    /\ UNCHANGED <<domains, hostsFile, nginxDir, last, before, calls, writes,
                 settings, nginxConf, document, process>>

\* await Promise.all([hosts, proxy]) resolves: both are done
CommandFilesDone ==
    /\ cmd.pc = "files"
    /\ cmd.hosts = "ok"
    /\ cmd.nginx = "ok"
    /\ cmd' = [cmd EXCEPT !.pc = "refresh"]
    /\ UNCHANGED <<domains, hostsFile, nginxDir, last, before, calls, writes,
                 settings, nginxConf, document, process>>

\* await Promise.all([hosts, proxy]) rejects as soon as one of them threw;
\* the command ends there
CommandFilesFailed ==
    /\ cmd.pc = "files"
    /\ cmd.hosts = "fail" \/ cmd.nginx = "fail"
    /\ cmd' = [cmd EXCEPT !.pc = "idle", !.ret = "IOError", !.failed = TRUE]
    /\ UNCHANGED <<domains, hostsFile, nginxDir, last, before, calls, writes,
                 settings, nginxConf, document, process>>

\* A refresh that puts the hosts file back when nginx.reload throws.
CommandRefreshRollsBack ==
    /\ cmd.pc = "refresh"
    /\ \/ /\ cmd' = [cmd EXCEPT !.pc = "save"]
          /\ hostsFile' = hostsFile
       \/ /\ cmd' = [cmd EXCEPT !.pc = "idle", !.ret = "IOError", !.failed = TRUE]
          /\ hostsFile' = before.hostsFile
    /\ UNCHANGED <<domains, nginxDir, last, before, calls, writes,
                 settings, nginxConf, document, process>>

\* if (auto_refresh) await refreshServer(): skipped or done, or nginx.reload
\* threw and the command ends
CommandRefresh ==
    /\ cmd.pc = "refresh"
    /\ \/ cmd' = [cmd EXCEPT !.pc = "save"]
       \/ cmd' = [cmd EXCEPT !.pc = "idle", !.ret = "IOError", !.failed = TRUE]
    /\ UNCHANGED <<domains, hostsFile, nginxDir, last, before, calls, writes,
                 settings, nginxConf, document, process>>

\* A save that adds the domain with its new status next to the old one.
CommandNewConfigAppends(c) ==
    CASE c.op = "create" -> Append(c.config, c.domain)
      [] c.op = "enable" -> Append(c.config, Domain(c.domain.source, c.domain.destination, ACTIVE))
      [] c.op = "disable" -> Append(c.config, Domain(c.domain.source, c.domain.destination, INACTIVE))
      [] OTHER -> RemoveMatching(c.config, c.domain)

\* The config the command saves.
CommandNewConfig(c) ==
    CASE c.op = "create" -> Append(c.config, c.domain)
      [] c.op = "enable" -> WithStatus(c.config, c.source, ACTIVE)
      [] c.op = "disable" -> WithStatus(c.config, c.source, INACTIVE)
      [] OTHER -> RemoveMatching(c.config, c.domain)

\* saveToConfig / removeFromConfig: Config.save writes config.json, or throws
CommandSave ==
    /\ cmd.pc = "save"
    /\ \/ /\ domains' = CommandNewConfig(cmd)
          /\ cmd' = [cmd EXCEPT !.pc = "idle", !.ret = "ok"]
       \/ /\ domains' = domains
          /\ cmd' = [cmd EXCEPT !.pc = "idle", !.ret = "IOError", !.failed = TRUE]
    /\ UNCHANGED <<hostsFile, nginxDir, last, before, calls, writes,
                 settings, nginxConf, document, process>>

InitCommands ==
    /\ domains = <<>>
    /\ hostsFile \in CommandHostFiles
    /\ nginxDir = <<>>
    /\ last = [op |-> "none", arg |-> <<>>, ret |-> FALSE, prev |-> NoCall]
    /\ before = Snapshot
    /\ calls = 0
    /\ cmd = NoCommand
    /\ writes = 0
    /\ settings = DEFAULT_SETTINGS
    /\ nginxConf = <<>>
    /\ document = NoDocument
    /\ process = NoProcess

NextCommands ==
    \/ CreateCommandAction
    \/ EnableCommandAction
    \/ DisableCommandAction
    \/ DeleteCommandAction
    \/ CommandHostsTask
    \/ CommandNginxTask
    \/ CommandFilesDone
    \/ CommandFilesFailed
    \/ CommandRefresh
    \/ CommandSave

SpecCommands == InitCommands /\ [][NextCommands]_vars

(***************************************************************************)
(* Properties of the commands.                                             *)
(***************************************************************************)
\* C11: in create, enable, disable and delete the store is written only by
\* the save step of a command whose hosts operation and proxy operation are
\* both done, and a command one of whose operations threw never gets past
\* the join: it ends without saving.
C11_SaveOnlyAfterBoth ==
    [][ /\ domains' # domains =>
            (cmd.pc = "save" /\ cmd.hosts = "ok" /\ cmd.nginx = "ok")
        /\ cmd'.pc \in {"refresh", "save"} =>
            (cmd'.hosts = "ok" /\ cmd'.nginx = "ok")
        /\ (cmd.pc = "files" /\ (cmd.hosts = "fail" \/ cmd.nginx = "fail")) =>
            /\ domains' = domains
            /\ cmd'.pc = "files" \/ (cmd'.pc = "idle" /\ cmd'.ret = "IOError")
      ]_vars

\* A disable command changed the hosts file and the domain's file and then
\* saved the store.
C11_Witness ==
    /\ cmd.op = "disable"
    /\ cmd.pc = "idle"
    /\ cmd.ret = "ok"
    /\ cmd.hosts = "ok"
    /\ cmd.nginx = "ok"
    /\ domains # before.domains
    /\ hostsFile # before.hostsFile
    /\ nginxDir # before.nginxDir

\* The entries read from the hosts file.
ManagedEntries == Range(readHostsFile(hostsFile))

\* C12: from an empty store, a hosts file without our lines and an empty
\* directory, after commands that all completed without an error, every
\* declared domain has its hosts line iff it is ACTIVE, has its file, and the
\* file is commented out throughout iff it is INACTIVE; and there is no line
\* of ours and no file for a domain that is not declared.
C12_StoresAgree ==
    (cmd.pc = "idle" /\ ~cmd.failed) =>
        /\ \A d \in Range(domains) :
            /\ (HostEntryFromDomain(d) \in ManagedEntries) <=> (d.status = ACTIVE)
            /\ FilesExists(nginxDir, file_name(d))
            /\ everyCommentedOut(FileLines(nginxDir, d)) <=> (d.status = INACTIVE)
        /\ \A e \in ManagedEntries : \E d \in Range(domains) : e = HostEntryFromDomain(d)
        /\ DOMAIN nginxDir \subseteq DeclaredNames

C15_SourcesUnique ==
    \A i, j \in 1..Len(domains) : domains[i].source = domains[j].source => i = j

\* A create for a source that is declared was turned down with two domains
\* in the store.
C15_Witness ==
    /\ cmd.op = "create"
    /\ cmd.ret = "AlreadyExists"
    /\ Len(domains) = 2
    /\ domains[1].source # domains[2].source

\* Some domain of the store has this source.
Declares(doms, source) == \E i \in 1..Len(doms) : doms[i].source = source

\* C16: a create for a source that is declared ends at once with
\* AlreadyExists, and an enable, disable or delete for a source that is not
\* declared ends at once with NotFound; a command that ended with one of the
\* two left the store, the hosts file and the directory as they were.
C16_ValidationBeforeWrites ==
    /\ (cmd.op = "create" /\ Declares(before.domains, cmd.source))
        => (cmd.pc = "idle" /\ cmd.ret = "AlreadyExists")
    /\ (cmd.op \in {"enable", "disable", "delete"} /\ ~Declares(before.domains, cmd.source))
        => (cmd.pc = "idle" /\ cmd.ret = "NotFound")
    /\ cmd.ret \in {"AlreadyExists", "NotFound"}
        => /\ domains = before.domains
           /\ hostsFile = before.hostsFile
           /\ nginxDir = before.nginxDir

\* A delete for a source that is not declared was turned down while another
\* domain was declared, with its line and its file in place.
C16_Witness ==
    /\ cmd.op = "delete"
    /\ cmd.ret = "NotFound"
    /\ domains # <<>>
    /\ ManagedEntries # {}
    /\ DOMAIN nginxDir # {}

\* C28: no domain with an empty source or an empty destination gets into the
\* store, the hosts file or the directory through create: no domain of the
\* store has one, no file of the directory is named after one, and no line
\* of the hosts file was written for one.
C28_NoEmptyDomainStored ==
    /\ \A i \in 1..Len(domains) :
        domains[i].source # <<>> /\ domains[i].destination # <<>>
    /\ \A args \in CreateArguments :
        (args[1] = <<>> \/ args[2] = <<>>) =>
            /\ ~FilesExists(nginxDir, file_name(Domain(args[1], args[2], ACTIVE)))
            /\ ~arrayContains(SplitLines(hostsFile),
                              EntryToString(HostEntryFromDomain(Domain(args[1], args[2], ACTIVE))))

(***************************************************************************)
(* The stop command's deleteHostsEntries: one Hosts.remove per declared    *)
(* domain, all started together on the same hosts file.  A remove reads    *)
(* the file to look for the entry, reads it again to filter its lines, and *)
(* writes the lines it kept; each of the three awaits file I/O, so the     *)
(* steps of different removes interleave.                                  *)
(***************************************************************************)
\* The hosts files the command can find: a line of someone else followed by
\* the lines of some of the declared domains, in the order declared.
StopHostFiles(doms) ==
    { JoinLines(<< <<"9", " ", "x", " ", "#", " ", "c">> >>
                \o SelectIdx([i \in 1..Len(doms) |-> EntryToString(HostEntryFromDomain(doms[i]))],
                             present, 1))
        : present \in SUBSET (1..Len(doms)) }

\* A Hosts.remove(host) that has been called and awaits its first read.
RemoveTask(host) == [pc |-> "read1", host |-> host, lines |-> <<>>, ret |-> FALSE]

\* StopCommand.action up to the Promise.all of deleteHostsEntries: with no
\* domain declared there is nothing to remove
StopCommandAction ==
    /\ cmd.pc = "idle"
    /\ cmd.op = "none"
    /\ cmd' = [NoCommand EXCEPT
                 !.op = "stop",
                 !.pc = IF domains = <<>> THEN "unlink" ELSE "removes",
                 !.config = domains,
                 !.ret = "running",
                 !.tasks = [i \in 1..Len(domains) |->
                              RemoveTask(HostEntryFromDomain(domains[i]))]]
    /\ before' = hostsFile
    /\ calls' = calls + 1
    /\ UNCHANGED <<domains, hostsFile, nginxDir, last, writes,
                 settings, nginxConf, document, process>>

\* Hosts.remove: `const hosts = await this.readHostsFile()` and the early
\* return when the entry is not among them
RemoveReadEntries ==
    /\ cmd.pc = "removes"
    /\ \E i \in 1..Len(cmd.tasks) :
        /\ cmd.tasks[i].pc = "read1"
        /\ cmd' = [cmd EXCEPT !.tasks[i] =
                     IF arrayContains(readHostsFile(hostsFile), cmd.tasks[i].host)
                     THEN [@ EXCEPT !.pc = "read2"]
                     ELSE [@ EXCEPT !.pc = "done", !.ret = FALSE]]
    /\ UNCHANGED <<domains, hostsFile, nginxDir, last, before, calls, writes,
                 settings, nginxConf, document, process>>

\* Hosts.remove: `chain(await this.readFile()).filter(...)`, the lines kept
RemoveReadLines ==
    /\ cmd.pc = "removes"
    /\ \E i \in 1..Len(cmd.tasks) :
        /\ cmd.tasks[i].pc = "read2"
        /\ cmd' = [cmd EXCEPT !.tasks[i] =
                     [@ EXCEPT !.pc = "write",
                               !.lines = SplitLines(HostsRemoveText(hostsFile, cmd.tasks[i].host))]]
    /\ UNCHANGED <<domains, hostsFile, nginxDir, last, before, calls, writes,
                 settings, nginxConf, document, process>>

\* Hosts.remove: `await this.files.writeLines(this.path, lines)`, return true
RemoveWriteLines ==
    /\ cmd.pc = "removes"
    /\ \E i \in 1..Len(cmd.tasks) :
        /\ cmd.tasks[i].pc = "write"
        /\ hostsFile' = JoinLines(cmd.tasks[i].lines)
        /\ cmd' = [cmd EXCEPT !.tasks[i] = [@ EXCEPT !.pc = "done", !.ret = TRUE]]
    /\ UNCHANGED <<domains, nginxDir, last, before, calls, writes,
                 settings, nginxConf, document, process>>

\* `await Promise.all(remove_hosts)` resolves: every remove has returned
RemovesDone ==
    /\ cmd.pc = "removes"
    /\ \A i \in 1..Len(cmd.tasks) : cmd.tasks[i].pc = "done"
    /\ cmd' = [cmd EXCEPT !.pc = "unlink"]
    /\ UNCHANGED <<domains, hostsFile, nginxDir, last, before, calls, writes,
                 settings, nginxConf, document, process>>

\* unlinkServer and stopServer, which leave the hosts file alone; the
\* command completes
StopCommandDone ==
    /\ cmd.pc = "unlink"
    /\ cmd' = [cmd EXCEPT !.pc = "idle", !.ret = "ok"]
    /\ UNCHANGED <<domains, hostsFile, nginxDir, last, before, calls, writes,
                 settings, nginxConf, document, process>>

InitStop ==
    /\ domains \in DomainConfigs
    /\ hostsFile \in StopHostFiles(domains)
    /\ nginxDir = <<>>
    /\ last = [op |-> "none", arg |-> <<>>, ret |-> FALSE, prev |-> NoCall]
    /\ before = <<>>
    /\ calls = 0
    /\ cmd = NoCommand
    /\ writes = 0
    /\ settings = DEFAULT_SETTINGS
    /\ nginxConf = <<>>
    /\ document = NoDocument
    /\ process = NoProcess

NextStop ==
    \/ StopCommandAction
    \/ RemoveReadEntries
    \/ RemoveReadLines
    \/ RemoveWriteLines
    \/ RemovesDone
    \/ StopCommandDone

SpecStop == InitStop /\ [][NextStop]_vars

\* C14: when the stop command has completed, the hosts file holds no line of
\* ours for any declared domain, whatever the order in which the steps of
\* its Hosts.remove calls ran.
C14_StopRemovesEveryEntry ==
    (cmd.op = "stop" /\ cmd.pc = "idle" /\ cmd.ret = "ok") =>
        \A d \in Range(domains) : HostEntryFromDomain(d) \notin ManagedEntries

(***************************************************************************)
(* The proxy's main configuration under link and unlink, and the paths the *)
(* server update writes to, as the start and stop commands call them.      *)
(* `before` lists the texts nginx.conf held when each call was made.       *)
(***************************************************************************)
\* Lines nginx.conf can hold before the tool runs.
ConfLinePool ==
    { <<"e", "v", "e", "n", "t", "s", " ", "{", "}">>,
      HTTP_OPEN,                                            \* http {
      <<"h", "t", "t", "p", "{">>,                          \* http{
      <<" ", " ">> \o HTTP_OPEN,                            \* an indented http {
      <<"}">>,
      <<" ", " ", " ", " ">> \o include_symbol(DEFAULT_SETTINGS) }  \* linked by hand

ConfTexts ==
    { JoinLines(ls) : ls \in UNION {[1..n -> ConfLinePool] : n \in 1..MaxConfLines} }

\* The folder name `init` writes, and one the user chose.
FolderNames == { LOCAL_DOMAINS, <<"d">> }

\* The store of a run: no domain, or one.
LinkDomainConfigs == { ds \in DomainConfigs : Len(ds) <= 1 }

\* The directory a path is in: the path up to its last "/".
DirName(path) ==
    LET slashes == {i \in 1..Len(path) : path[i] = "/"}
    IN  IF slashes = {} THEN <<>>
        ELSE Sub(path, 1, (CHOOSE i \in slashes : \A j \in slashes : j <= i) - 1)

\* The paths Nginx.update writes to: the common file when it is absent, and
\* the file of every declared domain that has none
UpdateWrittenPaths(st, dir, doms) ==
    (IF FilesExists(dir, COMMON_CONFIG_FILE) THEN {} ELSE {commonConfigPath(st)})
        \cup { domainPath(st, doms[i]) :
                 i \in {k \in 1..Len(doms) : ~FilesExists(dir, file_name(doms[k]))} }

InitLink ==
    /\ domains \in LinkDomainConfigs
    /\ hostsFile = <<>>
    /\ nginxDir = <<>>
    /\ last = [op |-> "none", arg |-> <<>>, ret |-> FALSE, prev |-> NoCall]
    /\ before = <<>>
    /\ calls = 0
    /\ cmd = NoCommand
    /\ writes = 0
    /\ settings \in { [nginx |-> DEFAULT_SETTINGS.nginx, nginx_folder_name |-> f] :
                        f \in FolderNames }
    /\ nginxConf \in ConfTexts
    /\ document = NoDocument
    /\ process = NoProcess

\* Nginx.link
NginxLink ==
    /\ calls < MaxCalls
    /\ nginxConf' = LinkText(nginxConf, settings)
    /\ last' = Called("link", <<>>, LinkResult(nginxConf, settings))
    /\ before' = Append(before, nginxConf)
    /\ calls' = calls + 1
    /\ UNCHANGED <<domains, hostsFile, nginxDir, cmd, writes, settings, document, process>>

\* Nginx.unlink
NginxUnlink ==
    /\ calls < MaxCalls
    /\ nginxConf' = UnlinkText(nginxConf, settings)
    /\ last' = Called("unlink", <<>>, UnlinkResult(nginxConf, settings))
    /\ before' = Append(before, nginxConf)
    /\ calls' = calls + 1
    /\ UNCHANGED <<domains, hostsFile, nginxDir, cmd, writes, settings, document, process>>

\* Nginx.update as StartCommand.updateServer calls it, with the paths it
\* writes to
NginxUpdateServer ==
    /\ calls < MaxCalls
    /\ last.op # "updateServer"
    /\ nginxDir' = NginxUpdateDir(nginxDir, domains)
    /\ last' = Called("updateServer", UpdateWrittenPaths(settings, nginxDir, domains),
                      NginxUpdateResult(nginxDir, domains))
    /\ before' = Append(before, nginxConf)
    /\ calls' = calls + 1
    /\ UNCHANGED <<domains, hostsFile, cmd, writes, settings, nginxConf, document, process>>

NextLink == NginxLink \/ NginxUnlink \/ NginxUpdateServer

SpecLink == InitLink /\ [][NextLink]_vars

\* The include lines of the text: the lines that, trimmed, are the include
\* symbol.
IncludeLines(conf, st) ==
    {i \in 1..Len(SplitLines(conf)) : Trim(SplitLines(conf)[i]) = include_symbol(st)}

\* C22: whatever nginx.conf holds, after link has returned the file has
\* exactly one include line and another link would return false and leave
\* it as it is; after unlink has returned the file has no include symbol
\* and another unlink would return false.
C22_LinkUnlinkIdempotent ==
    /\ last.op = "link" =>
        /\ Cardinality(IncludeLines(nginxConf, settings)) = 1
        /\ Occurrences(nginxConf, include_symbol(settings)) = 1
        /\ LinkResult(nginxConf, settings) = FALSE
        /\ LinkText(nginxConf, settings) = nginxConf
    /\ last.op = "unlink" =>
        /\ ~includes(nginxConf, include_symbol(settings))
        /\ UnlinkResult(nginxConf, settings) = FALSE

\* C23: on a file that did not have the include symbol, link followed by
\* unlink leaves the text the file had before the link.
C23_LinkThenUnlinkRestores ==
    (/\ last.op = "unlink"
     /\ last.prev.op = "link"
     /\ last.prev.ret = TRUE)
        => nginxConf = before[Len(before) - 1]

\* C24: whatever the folder name of the settings, every path the server
\* update writes to is in <settings.nginx>/conf/<settings.nginx_folder_name>,
\* the directory the include symbol of link names.
C24_WrittenWhereIncluded ==
    last.op = "updateServer" =>
        \A path \in last.arg :
            /\ DirName(path) = settings.nginx \o <<"/", "c", "o", "n", "f", "/">>
                                              \o settings.nginx_folder_name
            /\ includes(include_symbol(settings),
                        <<" ">> \o Sub(DirName(path), Len(settings.nginx) + 7, Len(DirName(path)))
                              \o <<"/", "*", ".", "c", "o", "n", "f", ";">>)

(***************************************************************************)
(* Domain objects, as the constructor builds them.                         *)
(***************************************************************************)
DomainSources == { <<>>, <<"a">>, <<"b">> }

\* ip:port destinations, an ip without a port, and the empty string.
DomainDestinations ==
    { <<>>, <<"1">>, <<"1", ":", "8">>, <<"1", ":", "9">>, <<"2", ":", "8">> }

\* The status passed to the constructor: none, or one.
DomainStatuses == { <<>>, <<INACTIVE>>, <<ACTIVE>> }

\* The port of an ip:port destination: what follows the first ':'.
PortOf(destination) ==
    Sub(destination, RunEndNotIn(destination, 1, {":"}) + 1, Len(destination))

InitDomain ==
    /\ domains = <<>>
    /\ hostsFile = <<>>
    /\ nginxDir = <<>>
    /\ last = [op |-> "none", arg |-> <<>>, ret |-> FALSE, prev |-> NoCall]
    /\ before = <<>>
    /\ calls = 0
    /\ cmd = NoCommand
    /\ writes = 0
    /\ settings = DEFAULT_SETTINGS
    /\ nginxConf = <<>>
    /\ document = NoDocument
    /\ process = NoProcess

\* new Domain(source, destination, status)
DomainConstruct ==
    /\ calls < MaxCalls
    /\ \E source \in DomainSources, destination \in DomainDestinations,
          status \in DomainStatuses :
        last' = Called("Domain", <<source, destination, status>>,
                       DomainObject(source, destination, status))
    /\ calls' = calls + 1
    /\ UNCHANGED <<domains, hostsFile, nginxDir, before, cmd, writes,
                   settings, nginxConf, document, process>>

NextDomain == DomainConstruct

SpecDomain == InitDomain /\ [][NextDomain]_vars

\* C25: two Domains constructed with the same source and the same
\* destination have the same file name, whatever their statuses; two with
\* the same source and ip:port destinations that have the same ip and
\* different ports have different file names.
C25_FileNameFunctionOfSourceAndDestination ==
    (last.op = "Domain" /\ last.prev.op = "Domain") =>
        LET x == last.prev.ret
            y == last.ret
        IN  /\ (x.source = y.source /\ x.destination = y.destination)
                => x.file_name = y.file_name
            /\ (/\ x.source = y.source
                 /\ includes(x.destination, <<":">>)
                 /\ includes(y.destination, <<":">>)
                 /\ removePortFromIp(x.destination) = removePortFromIp(y.destination)
                 /\ PortOf(x.destination) # PortOf(y.destination))
                => x.file_name # y.file_name

\* Two Domains for a -> 1 were constructed, one on port 8 and one on port 9,
\* and their file names differ.
C25_Witness ==
    /\ last.op = "Domain"
    /\ last.prev.op = "Domain"
    /\ last.prev.ret.source = <<"a">>
    /\ last.ret.source = <<"a">>
    /\ last.prev.ret.destination = <<"1", ":", "8">>
    /\ last.ret.destination = <<"1", ":", "9">>
    /\ last.prev.ret.file_name # last.ret.file_name

(***************************************************************************)
(* Config.load and Config.save on config.json.  The document is absent, a  *)
(* file that cannot be read, a text that is not JSON, or a JSON value; the *)
(* config in memory is `domains` and `settings`.                           *)
(***************************************************************************)
\* The domains a Config can hold, as objects.
DomainObjectConfigs ==
    { [i \in 1..Len(ds) |-> DomainObject(ds[i].source, ds[i].destination, <<ds[i].status>>)] :
        ds \in DomainConfigs }

SettingsPool ==
    { [nginx |-> DEFAULT_SETTINGS.nginx, nginx_folder_name |-> f] : f \in FolderNames }

JsonDocument(value) == [exists |-> TRUE, kind |-> "json", value |-> value]

\* JSON values someone wrote by hand: {}, a domain without a status, a
\* domain without a destination.
HandWrittenJson ==
    { <<>>,
      [domains |-> << [source |-> <<"a">>, destination |-> <<"1", ":", "8">>] >>,
       settings |-> DEFAULT_SETTINGS],
      [domains |-> << [source |-> <<"a">>] >>, settings |-> DEFAULT_SETTINGS] }

\* What can be at the path of config.json when a run starts: nothing, a file
\* that cannot be read, a text that is not JSON, a hand-written JSON value,
\* or what a Config holding one domain at most was saved as, with and
\* without the derived properties.
DocumentPool ==
    { NoDocument,
      [exists |-> TRUE, kind |-> "unreadable"],
      [exists |-> TRUE, kind |-> "text"] }
    \cup { JsonDocument(v) : v \in HandWrittenJson }
    \cup { JsonDocument(encodeClassToJSON(ConfigObject(ds, DEFAULT_SETTINGS), ignored)) :
             ds \in DomainObjectConfigs, ignored \in {{}, {"file_name", "path"}} }

InitConfig ==
    /\ domains \in DomainObjectConfigs
    /\ hostsFile = <<>>
    /\ nginxDir = <<>>
    /\ last = [op |-> "none", arg |-> <<>>, ret |-> FALSE, prev |-> NoCall]
    /\ before = [document |-> NoDocument, domains |-> <<>>, settings |-> DEFAULT_SETTINGS]
    /\ calls = 0
    /\ cmd = NoCommand
    /\ writes = 0
    /\ settings \in SettingsPool
    /\ nginxConf = <<>>
    /\ document \in DocumentPool
    /\ process = NoProcess

\* Config.load
ConfigLoad ==
    /\ calls < MaxCalls
    /\ LET loaded == ConfigLoadResult(document)
       IN  IF loaded.thrown
           THEN /\ last' = Called("load", <<>>, loaded.error)
                /\ UNCHANGED <<domains, settings>>
           ELSE /\ last' = Called("load", <<>>, "ok")
                /\ domains' = loaded.value.domains
                /\ settings' = loaded.value.settings
    /\ before' = [document |-> document, domains |-> domains, settings |-> settings]
    /\ calls' = calls + 1
    /\ UNCHANGED <<hostsFile, nginxDir, cmd, writes, nginxConf, document, process>>

\* Config.save: files.write of toJSONString, or the write fails and
\* tryOrThrow throws the IOError
ConfigSave ==
    /\ calls < MaxCalls
    /\ \/ /\ document' = JsonDocument(toJSONString(ConfigObject(domains, settings)))
          /\ last' = Called("save", <<>>, "ok")
       \/ /\ document' = document
          /\ last' = Called("save", <<>>, tryOrThrow(Threw("Error"), "IOError").error)
    /\ before' = [document |-> document, domains |-> domains, settings |-> settings]
    /\ calls' = calls + 1
    /\ UNCHANGED <<domains, hostsFile, nginxDir, cmd, writes, settings, nginxConf, process>>

NextConfig == ConfigLoad \/ ConfigSave

SpecConfig == InitConfig /\ [][NextConfig]_vars

\* C26: Config.load throws NotFound when nothing is at the path and IOError
\* when the file cannot be read or does not parse; it never writes or
\* creates the document; when it returns, the domains of the Config are
\* those of the document's array, one for one and in the same order.
C26_LoadFailsWithoutWriting ==
    last.op = "load" =>
        LET doc == before.document
        IN  /\ document = doc
            /\ ~doc.exists => last.ret = "NotFound"
            /\ (doc.exists /\ doc.kind \in {"unreadable", "text"}) => last.ret = "IOError"
            /\ last.ret # "ok" =>
                /\ last.ret \in {"NotFound", "IOError"}
                /\ domains = before.domains
                /\ settings = before.settings
            /\ last.ret = "ok" =>
                /\ doc.exists
                /\ doc.kind = "json"
                /\ Len(domains) = Len(doc.value.domains)
                /\ \A i \in 1..Len(domains) :
                    /\ domains[i].source = doc.value.domains[i].source
                    /\ domains[i].destination = doc.value.domains[i].destination
                    /\ "status" \in DOMAIN doc.value.domains[i]
                        => domains[i].status = doc.value.domains[i].status

\* A load returned the two domains of the document, which are not the
\* domains the config held before.
C26_Witness ==
    /\ last.op = "load"
    /\ last.ret = "ok"
    /\ Len(domains) = 2
    /\ domains # before.domains
    /\ domains[1].source # domains[2].source

\* C27: the document Config.save writes holds, for every domain, its source,
\* destination and status and no derived property, and the settings; a load
\* of it returns the domains and the settings that were saved.
C27_SaveExcludesDerivedFields ==
    (last.op = "save" /\ last.ret = "ok") =>
        /\ document.exists
        /\ document.kind = "json"
        /\ Len(document.value.domains) = Len(domains)
        /\ \A i \in 1..Len(domains) :
            DOMAIN document.value.domains[i] = {"source", "destination", "status"}
        /\ document.value.settings = settings
        /\ ~ConfigLoadResult(document).thrown
        /\ ConfigLoadResult(document).value.domains = domains
        /\ ConfigLoadResult(document).value.settings = settings

(***************************************************************************)
(* Nginx.reload, step by step.  `process.executed` lists what execa was    *)
(* given to run and how it went: the isRunning probe and its answer, the   *)
(* start, the reload signal.  The proxy can stop by itself at any time.    *)
(***************************************************************************)
Executed(run, ok) == [run |-> run, ok |-> ok]

\* Nginx.isRunning: stdout.includes("nginx"), false when the command fails.
\* tasklist | findstr nginx.exe finds the process or fails; the output of
\* ps aux | grep 'nginx: master process' can hold the grep itself.
IsRunningAnswers(proc) ==
    IF proc.running THEN {TRUE}
    ELSE IF proc.isWindows THEN {FALSE}
    ELSE {TRUE, FALSE}

InitReload ==
    /\ domains = <<>>
    /\ hostsFile = <<>>
    /\ nginxDir = <<>>
    /\ last = [op |-> "none", arg |-> <<>>, ret |-> FALSE, prev |-> NoCall]
    /\ before = <<>>
    /\ calls = 0
    /\ cmd = NoCommand
    /\ writes = 0
    /\ settings = DEFAULT_SETTINGS
    /\ nginxConf = <<>>
    /\ document = NoDocument
    /\ process \in { [running |-> r, executed |-> <<>>, isWindows |-> w] :
                       r \in BOOLEAN, w \in BOOLEAN }

\* nginx.reload() is called
ReloadCall ==
    /\ cmd.pc = "idle"
    /\ calls < MaxCalls
    /\ cmd' = [NoCommand EXCEPT !.op = "reload", !.pc = "isRunning", !.ret = "running"]
    /\ calls' = calls + 1
    /\ UNCHANGED <<domains, hostsFile, nginxDir, last, before, writes,
                   settings, nginxConf, document, process>>

\* makeSureStarted: `if (!(await Nginx.isRunning()))`
ReloadIsRunning ==
    /\ cmd.pc = "isRunning"
    /\ \E answer \in IsRunningAnswers(process) :
        /\ process' = [process EXCEPT !.executed = Append(@, Executed("isRunning", answer))]
        /\ cmd' = [cmd EXCEPT !.pc = IF answer THEN "signal" ELSE "start"]
    /\ UNCHANGED <<domains, hostsFile, nginxDir, last, before, calls, writes,
                   settings, nginxConf, document>>

\* makeSureStarted: `await this.start()`.  On Windows the subprocess is
\* detached and not awaited, so start returns whether or not the proxy came
\* up; elsewhere execa is awaited, and when it rejects the error leaves
\* reload as it is
ReloadStart ==
    /\ cmd.pc = "start"
    /\ \/ /\ process' = [process EXCEPT !.running = TRUE,
                                         !.executed = Append(@, Executed("start", TRUE))]
          /\ cmd' = [cmd EXCEPT !.pc = "signal"]
          /\ last' = last
       \/ /\ process.isWindows
          /\ process' = [process EXCEPT !.executed = Append(@, Executed("start", FALSE))]
          /\ cmd' = [cmd EXCEPT !.pc = "signal"]
          /\ last' = last
       \/ /\ ~process.isWindows
          /\ process' = [process EXCEPT !.executed = Append(@, Executed("start", FALSE))]
          /\ cmd' = [cmd EXCEPT !.pc = "idle", !.ret = "Error", !.failed = TRUE]
          /\ last' = Called("reload", <<>>, "Error")
    /\ UNCHANGED <<domains, hostsFile, nginxDir, before, calls, writes,
                   settings, nginxConf, document>>

\* A reload that returns normally when the signal could not be sent.
ReloadSignalSwallows ==
    /\ cmd.pc = "signal"
    /\ \E ok \in (IF process.running THEN {TRUE, FALSE} ELSE {FALSE}) :
        /\ process' = [process EXCEPT !.executed = Append(@, Executed("reload", ok))]
        /\ cmd' = [cmd EXCEPT !.pc = "idle", !.ret = "ok"]
        /\ last' = Called("reload", <<>>, "ok")
    /\ UNCHANGED <<domains, hostsFile, nginxDir, before, calls, writes,
                   settings, nginxConf, document>>

\* tryOrThrow(execa(this.nginx, ["-s", "reload"]), new IOError(...)): the
\* signal reaches a running proxy, which may still turn the new
\* configuration down, and fails when no proxy runs
ReloadSignal ==
    /\ cmd.pc = "signal"
    /\ \E ok \in (IF process.running THEN {TRUE, FALSE} ELSE {FALSE}) :
        LET result == tryOrThrow(IF ok THEN Returned("ok") ELSE Threw("Error"), "IOError")
            ret == IF result.thrown THEN result.error ELSE result.value
        IN  /\ process' = [process EXCEPT !.executed = Append(@, Executed("reload", ok))]
            /\ cmd' = [cmd EXCEPT !.pc = "idle", !.ret = ret, !.failed = @ \/ result.thrown]
            /\ last' = Called("reload", <<>>, ret)
    /\ UNCHANGED <<domains, hostsFile, nginxDir, before, calls, writes,
                   settings, nginxConf, document>>

\* The proxy stops by itself, or someone stops it.
ProxyExits ==
    /\ process.running
    /\ process' = [process EXCEPT !.running = FALSE]
    /\ UNCHANGED <<domains, hostsFile, nginxDir, last, before, calls, cmd, writes,
                   settings, nginxConf, document>>

NextReload ==
    \/ ReloadCall
    \/ ReloadIsRunning
    \/ ReloadStart
    \/ ReloadSignal
    \/ ProxyExits

SpecReload == InitReload /\ [][NextReload]_vars

\* C29: Nginx.reload runs nothing but the isRunning probe, the start and the
\* reload signal, so it never kills or stops the proxy; the signal is sent
\* right after a probe that answered true, or right after the start that
\* followed a probe that answered false, and the start is run only after
\* such a probe; a reload whose signal failed ends with the IOError, and one
\* that returned sent the signal with success.
C29_ReloadStartsThenSignals ==
    LET log == process.executed
    IN  /\ \A i \in 1..Len(log) :
            /\ log[i].run \in {"isRunning", "start", "reload"}
            /\ log[i].run = "start" =>
                (i > 1 /\ log[i - 1].run = "isRunning" /\ ~log[i - 1].ok)
            /\ log[i].run = "reload" =>
                /\ i > 1
                /\ \/ log[i - 1].run = "isRunning" /\ log[i - 1].ok
                   \/ /\ log[i - 1].run = "start"
                      /\ i > 2
                      /\ log[i - 2].run = "isRunning"
                      /\ ~log[i - 2].ok
        /\ (cmd.op = "reload" /\ cmd.pc = "idle") =>
            /\ log # <<>>
            /\ (log[Len(log)].run = "reload" /\ ~log[Len(log)].ok) => cmd.ret = "IOError"
            /\ cmd.ret = "ok" => (log[Len(log)].run = "reload" /\ log[Len(log)].ok)
            /\ cmd.ret \in {"ok", "IOError", "Error"}

\* A reload found the proxy stopped, started it, and its signal failed: it
\* ended with the IOError.
C29_Witness ==
    /\ cmd.op = "reload"
    /\ cmd.pc = "idle"
    /\ cmd.ret = "IOError"
    /\ Len(process.executed) >= 3
    /\ process.executed[Len(process.executed) - 1].run = "start"
    /\ process.executed[Len(process.executed)].run = "reload"
    /\ ~process.executed[Len(process.executed)].ok

(***************************************************************************)
(* Hosts.update, add and remove when a call of the file store fails.  An   *)
(* operation makes its calls one after the other: update and remove read,  *)
(* read again and write; add reads and appends; add and remove return      *)
(* after the first read when there is nothing to do.  `fault` is the call  *)
(* that fails, 0 for none.                                                 *)
(***************************************************************************)
Faults == 0..3

\* How many calls of the file store the operation makes when none fails.
HostsFileCalls(op, text, host) ==
    CASE op = "add" -> IF arrayContains(readHostsFile(text), host) THEN 1 ELSE 2
      [] op = "remove" -> IF arrayContains(readHostsFile(text), host) THEN 3 ELSE 1
      [] OTHER -> 3

\* The call that fails is one the operation makes.
FaultHits(op, text, host, fault) == fault >= 1 /\ fault <= HostsFileCalls(op, text, host)

\* The failing call is the write: writeLines of update and remove, append
\* of add.
FaultIsWrite(op, fault) == (op = "add" /\ fault = 2) \/ (op # "add" /\ fault = 3)

\* Hosts.readFile when readLines rejects: tryOrThrow throws the IOError
\* "Failed to read hosts file"
HostsReadFileFailed == tryOrThrow(Threw("Error"), "IOError")

\* What the operation returns or throws: the body up to the failing call,
\* inside the tryOrThrow of the operation
HostsOutcome(op, doms, text, host, fault) ==
    tryOrThrow(IF ~FaultHits(op, text, host, fault)
               THEN Returned(CASE op = "add" -> HostsAddResult(text, host)
                               [] op = "remove" -> HostsRemoveResult(text, host)
                               [] OTHER -> HostsUpdateResult(doms, text))
               ELSE IF FaultIsWrite(op, fault) THEN Threw("Error")
               ELSE HostsReadFileFailed,
               "IOError")

\* What the hosts file can hold after the operation: what the operation
\* writes when no call fails; what it held when a read or the append fails;
\* that, or nothing, when writeLines fails, for writeFile truncates the file
\* before it writes
HostsFileAfter(op, doms, text, host, fault) ==
    IF ~FaultHits(op, text, host, fault)
    THEN {CASE op = "add" -> HostsAddText(text, host)
            [] op = "remove" -> HostsRemoveText(text, host)
            [] OTHER -> HostsUpdateText(doms, text)}
    ELSE IF FaultIsWrite(op, fault) /\ op # "add" THEN {text, <<>>}
    ELSE {text}

\* The record of the call: the entry, the failing call, and what the file
\* store left in the file
FaultyCall(op, doms, text, host, fault, left) ==
    LET outcome == HostsOutcome(op, doms, text, host, fault)
    IN  Called(op,
               [host |-> host, fault |-> fault,
                failed |-> FaultHits(op, text, host, fault), left |-> left],
               IF outcome.thrown THEN outcome.error
               ELSE IF op = "update" THEN "Changes"
               ELSE IF outcome.value THEN "true" ELSE "false")

InitHostsFaults ==
    /\ domains \in LinkDomainConfigs
    /\ hostsFile \in HostFileTexts
    /\ nginxDir = <<>>
    /\ last = [op |-> "none", arg |-> <<>>, ret |-> FALSE, prev |-> NoCall]
    /\ before = <<>>
    /\ calls = 0
    /\ cmd = NoCommand
    /\ writes = 0
    /\ settings = DEFAULT_SETTINGS
    /\ nginxConf = <<>>
    /\ document = NoDocument
    /\ process = NoProcess

\* Hosts.update, with a call of the file store that fails or none
HostsUpdateFaulty ==
    /\ calls = 0
    /\ \E fault \in Faults :
        \E left \in HostsFileAfter("update", domains, hostsFile, Null, fault) :
            /\ hostsFile' = left
            /\ last' = FaultyCall("update", domains, hostsFile, Null, fault, left)
    /\ before' = hostsFile
    /\ calls' = calls + 1
    /\ UNCHANGED <<domains, nginxDir, cmd, writes, settings, nginxConf, document, process>>

\* Hosts.add(HostEntry.fromDomain(domain))
HostsAddFaulty ==
    /\ calls = 0
    /\ \E d \in Range(domains), fault \in Faults :
        \E left \in HostsFileAfter("add", domains, hostsFile, HostEntryFromDomain(d), fault) :
            /\ hostsFile' = left
            /\ last' = FaultyCall("add", domains, hostsFile, HostEntryFromDomain(d), fault, left)
    /\ before' = hostsFile
    /\ calls' = calls + 1
    /\ UNCHANGED <<domains, nginxDir, cmd, writes, settings, nginxConf, document, process>>

\* Hosts.remove(HostEntry.fromDomain(domain))
HostsRemoveFaulty ==
    /\ calls = 0
    /\ \E d \in Range(domains), fault \in Faults :
        \E left \in HostsFileAfter("remove", domains, hostsFile, HostEntryFromDomain(d), fault) :
            /\ hostsFile' = left
            /\ last' = FaultyCall("remove", domains, hostsFile, HostEntryFromDomain(d), fault, left)
    /\ before' = hostsFile
    /\ calls' = calls + 1
    /\ UNCHANGED <<domains, nginxDir, cmd, writes, settings, nginxConf, document, process>>

NextHostsFaults == HostsUpdateFaulty \/ HostsAddFaulty \/ HostsRemoveFaulty

SpecHostsFaults == InitHostsFaults /\ [][NextHostsFaults]_vars

\* C30: when a read, the append or the write fails during Hosts.add, remove
\* or update, the operation throws the IOError: it returns neither a
\* boolean nor the Changes, and what it throws is not the error of the file
\* store; the file is left as the failing call left it.  When no call
\* fails, nothing is thrown.
C30_FileFailureIsIOError ==
    last.op \in HostsOps =>
        IF last.arg.failed
        THEN /\ last.ret = "IOError"
             /\ hostsFile = last.arg.left
             /\ hostsFile \in {before, <<>>}
        ELSE last.ret \in {"true", "false", "Changes"}

\* The write of a remove that had an entry to take out failed: the IOError,
\* and the entry is still in the file.
C30_Witness ==
    /\ last.op = "remove"
    /\ last.arg.failed
    /\ last.arg.fault = 3
    /\ last.ret = "IOError"
    /\ hostsFile = before
    /\ HostsExists(hostsFile, last.arg.host)

(***************************************************************************)
(* Properties of the managed directory after Nginx.update.                 *)
(***************************************************************************)
\* C32: after Nginx.update the file names in the managed directory, the
\* common file's aside, are exactly the file names of the declared domains,
\* whatever the directory held before.
C32_DirectoryEqualsDeclared ==
    last.op = "update" =>
        (DOMAIN nginxDir) \ {COMMON_CONFIG_FILE} = DeclaredNames

\* The update ran on a directory that lacked the file of a declared domain
\* and held two files no declared domain owns.
C32_Witness ==
    /\ last.op = "update"
    /\ DeclaredNames \ (DOMAIN before) # {}
    /\ Cardinality(Orphans(before)) >= 2
    /\ (DOMAIN nginxDir) \ {COMMON_CONFIG_FILE} = DeclaredNames

(***************************************************************************)
(* Nginx.update with the tasks of its Promise.all taken apart.  An         *)
(* enableDomain or disableDomain task awaits readLines and, past its       *)
(* guard, awaits writeLines; a delete is one call.  All tasks are started  *)
(* before any of them is awaited, so their steps interleave.               *)
(***************************************************************************)
\* Declared domains, among them two that the create command accepts side by
\* side (their sources differ) and whose file_name is the same,
\* a-b-1$8.conf.
ReconcilePool ==
    { Domain(<<"a", "-", "b">>, <<"1", ":", "8">>, ACTIVE),
      Domain(<<"a", "-", "b">>, <<"1", ":", "8">>, INACTIVE),
      Domain(<<"a">>, <<"b", "-", "1", ":", "8">>, ACTIVE),
      Domain(<<"a">>, <<"b", "-", "1", ":", "8">>, INACTIVE),
      Domain(<<"c">>, <<"2", ":", "8">>, ACTIVE),
      Domain(<<"c">>, <<"2", ":", "8">>, INACTIVE) }

\* Config.domains: no two domains share a source.
ReconcileConfigs ==
    { ds \in UNION {[1..n -> ReconcilePool] : n \in 0..MaxDomains} :
        \A i, j \in 1..Len(ds) : ds[i].source = ds[j].source => i = j }

\* The name of a file no domain of the pool owns.
ORPHAN_FILE == <<"z", "-", "9", ".", "c", "o", "n", "f">>

\* The directories an update can find: any of the declared files, as
\* created by a domain that owns it or commented out, the orphan, and the
\* common file.
ReconcileDirs(doms) ==
    LET declared == Range(domainFileNames(doms))
        Owner(n) == CHOOSE d \in Range(doms) : file_name(d) = n
        Text(n, k) == IF n = COMMON_CONFIG_FILE THEN COMMON_CONFIG
                      ELSE IF n = ORPHAN_FILE THEN <<"x">>
                      ELSE DomainFileText(Owner(n), k)
    IN  UNION { { [n \in names |-> Text(n, kind[n])] : kind \in [names -> {1, 2}] }
                : names \in SUBSET (declared \cup {ORPHAN_FILE, COMMON_CONFIG_FILE}) }

\* Nginx.update through `await this.addAllDomains()`: the common file is
\* there, and every declared file that was missing holds the server block of
\* a declared domain with that file_name (the addDomain calls run together,
\* each past its exists check before any has written).
ListedDirs(dir, doms) ==
    LET base == createCommonDomainConfig(dir)
        missing == Range(domainFileNames(doms)) \ DOMAIN base
    IN  { [n \in (DOMAIN base) \cup missing |->
              IF n \in missing THEN domainServerFileContent(pick[n]) ELSE base[n]]
          : pick \in { f \in [missing -> Range(doms)] : \A n \in missing : file_name(f[n]) = n } }

\* enableDomain(domain) or disableDomain(domain), called and awaiting its
\* readLines
StatusTask(task) ==
    [pc |-> "read", kind |-> IF task.enable THEN "enable" ELSE "disable",
     file |-> file_name(task.domain), text |-> <<>>, ret |-> FALSE]

\* files.delete(`${domains_folder}/${file}`), called
DeleteTask(file) ==
    [pc |-> "delete", kind |-> "delete", file |-> file, text |-> <<>>, ret |-> FALSE]

\* The array given to Promise.all: the status tasks, then the deletes.
UpdateTasks(dir, doms) ==
    LET statuses == updateDomainStatuses(doms)
        invalid_files == UpdatePartition(dir, doms)[2]
    IN  [i \in 1..Len(statuses) |-> StatusTask(statuses[i])]
        \o [i \in 1..Len(invalid_files) |-> DeleteTask(invalid_files[i])]

\* Nginx.update from its call to the Promise.all: the files are created and
\* listed, the tasks are started
ReconcileStart ==
    /\ cmd.pc = "idle"
    /\ calls < MaxCalls
    /\ \E listed \in ListedDirs(nginxDir, domains) :
        /\ nginxDir' = listed
        /\ cmd' = [NoCommand EXCEPT
                     !.op = "update",
                     !.pc = "tasks",
                     !.config = [listed |-> listed,
                                 missing_files |-> UpdateMissingFiles(nginxDir, domains),
                                 invalid_files |-> UpdatePartition(nginxDir, domains)[2]],
                     !.tasks = UpdateTasks(nginxDir, domains)]
    /\ before' = nginxDir
    /\ UNCHANGED <<domains, hostsFile, last, calls, writes,
                 settings, nginxConf, document, process>>

\* enableDomain / disableDomain: readLines resolves, and the guard returns
\* false or the new lines are handed to writeLines
ReconcileRead ==
    /\ cmd.pc = "tasks"
    /\ \E i \in 1..Len(cmd.tasks) :
        LET task == cmd.tasks[i]
            text == nginxDir[task.file]
            acts == IF task.kind = "enable" THEN EnableDomainResult(text)
                    ELSE DisableDomainResult(text)
        IN  /\ task.pc = "read"
            /\ cmd' = [cmd EXCEPT !.tasks[i] =
                         IF acts
                         THEN [@ EXCEPT !.pc = "write",
                                        !.text = IF task.kind = "enable"
                                                 THEN EnableDomainText(text)
                                                 ELSE DisableDomainText(text)]
                         ELSE [@ EXCEPT !.pc = "done", !.ret = FALSE]]
    /\ UNCHANGED <<domains, hostsFile, nginxDir, last, before, calls, writes,
                 settings, nginxConf, document, process>>

\* enableDomain / disableDomain: writeLines resolves, return true
ReconcileWrite ==
    /\ cmd.pc = "tasks"
    /\ \E i \in 1..Len(cmd.tasks) :
        /\ cmd.tasks[i].pc = "write"
        /\ nginxDir' = FilesWrite(nginxDir, cmd.tasks[i].file, cmd.tasks[i].text)
        /\ cmd' = [cmd EXCEPT !.tasks[i] = [@ EXCEPT !.pc = "done", !.ret = TRUE]]
    /\ UNCHANGED <<domains, hostsFile, last, before, calls, writes,
                 settings, nginxConf, document, process>>

\* files.delete of an invalid file resolves
ReconcileDelete ==
    /\ cmd.pc = "tasks"
    /\ \E i \in 1..Len(cmd.tasks) :
        /\ cmd.tasks[i].pc = "delete"
        /\ nginxDir' = FilesDelete(nginxDir, cmd.tasks[i].file)
        /\ cmd' = [cmd EXCEPT !.tasks[i] = [@ EXCEPT !.pc = "done"]]
    /\ UNCHANGED <<domains, hostsFile, last, before, calls, writes,
                 settings, nginxConf, document, process>>

\* Promise.all resolves and update returns: the Changes, or whether the
\* first task of the array resolved to true
ReconcileDone ==
    /\ cmd.pc = "tasks"
    /\ \A i \in 1..Len(cmd.tasks) : cmd.tasks[i].pc = "done"
    /\ last' = Called("update", cmd.config,
                      IF Len(cmd.config.missing_files) # 0 \/ Len(cmd.config.invalid_files) # 0
                      THEN [kind |-> "changes", added |-> cmd.config.missing_files,
                            removed |-> cmd.config.invalid_files]
                      ELSE [kind |-> "boolean",
                            value |-> IF cmd.tasks = <<>> THEN FALSE ELSE cmd.tasks[1].ret])
    /\ cmd' = NoCommand
    /\ calls' = calls + 1
    /\ UNCHANGED <<domains, hostsFile, nginxDir, before, writes,
                 settings, nginxConf, document, process>>

InitReconcile ==
    /\ domains \in ReconcileConfigs
    /\ hostsFile = <<>>
    /\ nginxDir \in ReconcileDirs(domains)
    /\ last = [op |-> "none", arg |-> <<>>, ret |-> FALSE, prev |-> NoCall]
    /\ before = <<>>
    /\ calls = 0
    /\ cmd = NoCommand
    /\ writes = 0
    /\ settings = DEFAULT_SETTINGS
    /\ nginxConf = <<>>
    /\ document = NoDocument
    /\ process = NoProcess

NextReconcile ==
    \/ ReconcileStart
    \/ ReconcileRead
    \/ ReconcileWrite
    \/ ReconcileDelete
    \/ ReconcileDone

SpecReconcile == InitReconcile /\ [][NextReconcile]_vars

\* C33: an Nginx.update that follows an Nginx.update creates no file,
\* deletes no file, leaves the text of every file as it was and returns
\* false, for any declared domains and any directory the first one found.
C33_SecondUpdateChangesNothing ==
    (last.op = "update" /\ last.prev.op = "update" /\ cmd.pc = "idle") =>
        /\ nginxDir = before
        /\ last.ret = [kind |-> "boolean", value |-> FALSE]

\* C34: whatever the order in which the steps of the tasks of one update
\* ran, the directory it leaves and the value it returns are those of the
\* tasks run one after the other on the listed directory.
C34_TasksOrderIndependent ==
    (last.op = "update" /\ cmd.pc = "idle") =>
        /\ nginxDir = removeInvalidFiles(
                          RunStatusTasks(last.arg.listed, updateDomainStatuses(domains)),
                          last.arg.invalid_files)
        /\ last.ret.kind = "boolean" =>
              last.ret.value =
                  (updateDomainStatuses(domains) # <<>>
                     /\ StatusTaskResult(last.arg.listed, updateDomainStatuses(domains)[1]))

(***************************************************************************)
(* Two invocations of the tool at once on one hosts file, each in a        *)
(* process of its own: one runs Hosts.add or Hosts.remove for the first    *)
(* declared domain, the other for the second.  An add reads the file and   *)
(* appends; a remove reads, reads again and writes every line it kept.     *)
(* Nothing locks the file, so the steps of the two interleave.             *)
(***************************************************************************)
\* Two declared domains with different entries.
RaceConfigs ==
    { ds \in DomainConfigs : Len(ds) = 2 /\ \A i \in 1..2 : ds[i].status = ACTIVE }

\* Hosts.add(host) or Hosts.remove(host), called and awaiting its first
\* read.  `stale` says that the file was written by the other invocation
\* after this one read the lines it is about to write, `overwrote` that it
\* wrote such lines.
RaceTask(op, host) ==
    [pc |-> "read1", op |-> op, host |-> host, lines |-> <<>>, ret |-> FALSE,
     stale |-> FALSE, overwrote |-> FALSE]

\* The other invocation sees that the file changed under the lines it holds.
MarkStale(tasks, i) ==
    [j \in 1..Len(tasks) |->
        IF j # i /\ tasks[j].pc = "write" THEN [tasks[j] EXCEPT !.stale = TRUE] ELSE tasks[j]]

\* The two invocations are started.
RaceInvoke ==
    /\ cmd.pc = "idle"
    /\ cmd.op = "none"
    /\ \E op1, op2 \in {"add", "remove"} :
        cmd' = [NoCommand EXCEPT
                  !.op = "race",
                  !.pc = "race",
                  !.tasks = << RaceTask(op1, HostEntryFromDomain(domains[1])),
                               RaceTask(op2, HostEntryFromDomain(domains[2])) >>]
    /\ before' = hostsFile
    /\ UNCHANGED <<domains, hostsFile, nginxDir, last, calls, writes,
                 settings, nginxConf, document, process>>

\* Hosts.add / Hosts.remove: `const hosts = await this.readHostsFile()` and
\* the early return
RaceReadEntries ==
    /\ cmd.pc = "race"
    /\ \E i \in 1..Len(cmd.tasks) :
        LET task == cmd.tasks[i]
            found == arrayContains(readHostsFile(hostsFile), task.host)
        IN  /\ task.pc = "read1"
            /\ cmd' = [cmd EXCEPT !.tasks[i] =
                         IF task.op = "add"
                         THEN (IF found THEN [@ EXCEPT !.pc = "done", !.ret = FALSE]
                               ELSE [@ EXCEPT !.pc = "append"])
                         ELSE (IF found THEN [@ EXCEPT !.pc = "read2"]
                               ELSE [@ EXCEPT !.pc = "done", !.ret = FALSE])]
    /\ UNCHANGED <<domains, hostsFile, nginxDir, last, before, calls, writes,
                 settings, nginxConf, document, process>>

\* Hosts.add: `await this.files.append(this.path, ...)`, return true
RaceAppend ==
    /\ cmd.pc = "race"
    /\ \E i \in 1..Len(cmd.tasks) :
        /\ cmd.tasks[i].pc = "append"
        /\ hostsFile' = hostsFile \o <<"\n">> \o EntryToString(cmd.tasks[i].host)
        /\ cmd' = [cmd EXCEPT !.tasks =
                     [MarkStale(cmd.tasks, i) EXCEPT ![i] = [@ EXCEPT !.pc = "done", !.ret = TRUE]]]
    /\ UNCHANGED <<domains, nginxDir, last, before, calls, writes,
                 settings, nginxConf, document, process>>

\* Hosts.remove: `chain(await this.readFile()).filter(...)`, the lines kept
RaceReadLines ==
    /\ cmd.pc = "race"
    /\ \E i \in 1..Len(cmd.tasks) :
        LET lines == HostsReadFile(hostsFile)
        IN  /\ cmd.tasks[i].pc = "read2"
            /\ cmd' = [cmd EXCEPT !.tasks[i] =
                         [@ EXCEPT !.pc = "write",
                                   !.lines = SelectIdx(lines,
                                                 {k \in 1..Len(lines) :
                                                     HostEntryFromString(lines[k]) # cmd.tasks[i].host},
                                                 1)]]
    /\ UNCHANGED <<domains, hostsFile, nginxDir, last, before, calls, writes,
                 settings, nginxConf, document, process>>

\* A remove that holds the file from its read to its write: what it writes
\* is the file as it is now without the lines of its entry.
RaceWriteLinesLocked ==
    /\ cmd.pc = "race"
    /\ \E i \in 1..Len(cmd.tasks) :
        /\ cmd.tasks[i].pc = "write"
        /\ hostsFile' = HostsRemoveText(hostsFile, cmd.tasks[i].host)
        /\ cmd' = [cmd EXCEPT !.tasks =
                     [MarkStale(cmd.tasks, i) EXCEPT ![i] =
                        [@ EXCEPT !.pc = "done", !.ret = TRUE, !.overwrote = cmd.tasks[i].stale]]]
    /\ UNCHANGED <<domains, nginxDir, last, before, calls, writes,
                 settings, nginxConf, document, process>>

\* Hosts.remove: `await this.files.writeLines(this.path, lines)`, return true
RaceWriteLines ==
    /\ cmd.pc = "race"
    /\ \E i \in 1..Len(cmd.tasks) :
        /\ cmd.tasks[i].pc = "write"
        /\ hostsFile' = JoinLines(cmd.tasks[i].lines)
        /\ cmd' = [cmd EXCEPT !.tasks =
                     [MarkStale(cmd.tasks, i) EXCEPT ![i] =
                        [@ EXCEPT !.pc = "done", !.ret = TRUE, !.overwrote = cmd.tasks[i].stale]]]
    /\ UNCHANGED <<domains, nginxDir, last, before, calls, writes,
                 settings, nginxConf, document, process>>

\* Both invocations have returned.
RaceDone ==
    /\ cmd.pc = "race"
    /\ \A i \in 1..Len(cmd.tasks) : cmd.tasks[i].pc = "done"
    /\ cmd' = [cmd EXCEPT !.pc = "idle", !.ret = "ok"]
    /\ calls' = calls + 1
    /\ UNCHANGED <<domains, hostsFile, nginxDir, last, before, writes,
                 settings, nginxConf, document, process>>

InitRace ==
    /\ domains \in RaceConfigs
    /\ hostsFile \in HostFileTexts
    /\ nginxDir = <<>>
    /\ last = [op |-> "none", arg |-> <<>>, ret |-> FALSE, prev |-> NoCall]
    /\ before = <<>>
    /\ calls = 0
    /\ cmd = NoCommand
    /\ writes = 0
    /\ settings = DEFAULT_SETTINGS
    /\ nginxConf = <<>>
    /\ document = NoDocument
    /\ process = NoProcess

NextRace ==
    \/ RaceInvoke
    \/ RaceReadEntries
    \/ RaceAppend
    \/ RaceReadLines
    \/ RaceWriteLines
    \/ RaceDone

SpecRace == InitRace /\ [][NextRace]_vars

\* The file does not show what the invocation reported: the entry it added
\* is not in the file, or the entry it removed is.
EffectAbsent(task) ==
    (task.op = "add") # arrayContains(readHostsFile(hostsFile), task.host)

\* C31: when both invocations have returned true, the effect of one of them
\* is absent from the file exactly when the other wrote, after it, lines it
\* had read before it: the write of an unlocked read-modify-write takes the
\* other invocation's line out of the file, or puts it back.
C31_StaleWriteLosesUpdate ==
    (cmd.op = "race" /\ cmd.pc = "idle"
        /\ \A i \in 1..2 : cmd.tasks[i].ret = TRUE) =>
        \A i \in 1..2 : EffectAbsent(cmd.tasks[i]) <=> cmd.tasks[3 - i].overwrote

\* Both invocations returned true, one an add and one a remove, and the line
\* the add appended is not in the file.
C31_Witness ==
    /\ cmd.op = "race"
    /\ cmd.pc = "idle"
    /\ \A i \in 1..2 : cmd.tasks[i].ret = TRUE
    /\ \E i \in 1..2 :
        /\ cmd.tasks[i].op = "add"
        /\ cmd.tasks[3 - i].op = "remove"
        /\ ~arrayContains(readHostsFile(hostsFile), cmd.tasks[i].host)
        /\ ~arrayContains(readHostsFile(hostsFile), cmd.tasks[3 - i].host)

(***************************************************************************)
(* HostEntry.toString and HostEntry.fromString, one after the other, on    *)
(* entries built from any ip and name.                                     *)
(***************************************************************************)
\* Characters of an ip or a name: a digit, a letter, and the two the pattern
\* of a hosts line sets apart.
FieldChars == {"1", "a", "#", " "}

\* The ip or the name of an entry: any string, the empty one too.
FieldTexts == UNION {[1..n -> FieldChars] : n \in 0..MaxFieldLen}

InitEntry ==
    /\ domains = <<>>
    /\ hostsFile = <<>>
    /\ nginxDir = <<>>
    /\ last = [op |-> "none", arg |-> <<>>, ret |-> FALSE, prev |-> NoCall]
    /\ before \in {HostEntry(ip, name) : ip \in FieldTexts, name \in FieldTexts}
    /\ calls = 0
    /\ cmd = NoCommand
    /\ writes = 0
    /\ settings = DEFAULT_SETTINGS
    /\ nginxConf = <<>>
    /\ document = NoDocument
    /\ process = NoProcess

\* entry.toString(): the line Hosts.add and Hosts.update write
EntryWritten ==
    /\ last.op = "none"
    /\ hostsFile' = EntryToString(before)
    /\ last' = Called("toString", before, EntryToString(before))
    /\ UNCHANGED <<domains, nginxDir, before, calls, cmd, writes,
                 settings, nginxConf, document, process>>

\* HostEntry.fromString(line), as readHostsFile calls it on the line
EntryRead ==
    /\ last.op = "toString"
    /\ last' = Called("fromString", hostsFile, HostEntryFromString(hostsFile))
    /\ calls' = calls + 1
    /\ UNCHANGED <<domains, hostsFile, nginxDir, before, cmd, writes,
                 settings, nginxConf, document, process>>

NextEntry == EntryWritten \/ EntryRead

SpecEntry == InitEntry /\ [][NextEntry]_vars

\* No character of the text is whitespace or '#'.
NoSpaceNoHash(text) == \A i \in 1..Len(text) : text[i] \notin WhiteSpace \cup {"#"}

\* C35: for every entry whose ip and name hold no whitespace and no '#',
\* fromString of the line toString gives is an entry of ours with the same
\* ip and name.
C35_EntryRoundTrips ==
    (last.op = "fromString" /\ NoSpaceNoHash(before.ip) /\ NoSpaceNoHash(before.name))
        => last.ret = before

(***************************************************************************)
(* The hosts file under an update that has nothing to add or remove.       *)
(***************************************************************************)
\* C36: when Hosts.update finds nothing to add and nothing to remove, the
\* hosts file holds after the call the text it held before, character for
\* character.
C36_EmptyDiffKeepsFile ==
    (last.op = "update" /\ last.ret.added = <<>> /\ last.ret.removed = <<>>)
        => hostsFile = before

\* A first update found the entry of an ACTIVE domain in a file that also
\* holds a blank line, and had nothing to add or remove.
C36_Witness ==
    /\ last.op = "update"
    /\ last.prev.op = "none"
    /\ last.ret.added = <<>>
    /\ last.ret.removed = <<>>
    /\ readHostsFile(before) # <<>>
    /\ \E i \in 1..Len(SplitLines(before)) : SplitLines(before)[i] = <<>>
    /\ hostsFile = before

(***************************************************************************)
(* The enable and disable commands on a domain that has the status asked   *)
(* for already.                                                            *)
(***************************************************************************)
\* C37: an enable command for a domain declared ACTIVE and a disable command
\* for a domain declared INACTIVE return at once: the hosts file, the
\* managed directory and the store are what they were when the command
\* started, whether or not the files agree with the declared status.
C37_AlreadyInStatusWritesNothing ==
    (/\ cmd.pc = "idle"
     /\ cmd.op \in {"enable", "disable"}
     /\ cmd.domain # Null
     /\ cmd.domain.status = (IF cmd.op = "enable" THEN ACTIVE ELSE INACTIVE)) =>
        /\ cmd.ret = "already"
        /\ domains = before.domains
        /\ hostsFile = before.hostsFile
        /\ nginxDir = before.nginxDir

\* An enable command returned at once for the ACTIVE domain a, whose line a
\* disable command that failed later on had taken out of the hosts file.
C37_Witness ==
    /\ cmd.pc = "idle"
    /\ cmd.op = "enable"
    /\ cmd.ret = "already"
    /\ cmd.failed
    /\ cmd.source = <<"a">>
    /\ cmd.domain # Null
    /\ cmd.domain.status = ACTIVE
    /\ ~HostsExists(hostsFile, HostEntryFromDomain(cmd.domain))
    /\ hostsFile = before.hostsFile

(***************************************************************************)
(* The stop and uninstall commands on the proxy installation.  The install *)
(* path of the settings is the one the tool downloads to, or a path the    *)
(* user gave.  `process.installed` tells whether the install directory is  *)
(* there; `process.executed` lists the probes and signals sent, and the    *)
(* removal of the directory.                                               *)
(***************************************************************************)
\* Nginx.default_path: `${FileSystem.root}/nginx`
default_path == DEFAULT_SETTINGS.nginx

\* settings.nginx: the default path, the same directory written with a
\* trailing slash, or the path of another installation
InstallPaths == { default_path, default_path \o <<"/">>, <<"/", "o">> }

\* An installation treated as the tool's own whatever its path.
isOursAnyPath(st) == TRUE

\* Nginx.isOurs = config.settings.nginx === Nginx.default_path
isOurs(st) == st.nginx = default_path

\* nginx.conf before the command: not linked, or linked
ShutdownConfTexts(st) ==
    { JoinLines(<<HTTP_OPEN, <<"}">>>>), LinkText(JoinLines(<<HTTP_OPEN, <<"}">>>>), st) }

InitShutdown ==
    /\ domains \in LinkDomainConfigs
    /\ hostsFile \in StopHostFiles(domains)
    /\ nginxDir = <<>>
    /\ last = [op |-> "none", arg |-> <<>>, ret |-> FALSE, prev |-> NoCall]
    /\ before = <<>>
    /\ calls = 0
    /\ cmd = NoCommand
    /\ writes = 0
    /\ settings \in { [DEFAULT_SETTINGS EXCEPT !.nginx = p] : p \in InstallPaths }
    /\ nginxConf \in ShutdownConfTexts(settings)
    /\ document = NoDocument
    /\ process \in { [running |-> r, executed |-> <<>>, isWindows |-> w, installed |-> TRUE] :
                       r \in BOOLEAN, w \in BOOLEAN }

\* StopCommand.action and UninstallCommand.action up to the Promise.all of
\* deleteHostsEntries
ShutdownCommandAction ==
    /\ cmd.pc = "idle"
    /\ cmd.op = "none"
    /\ \E op \in {"stop", "uninstall"} :
        cmd' = [NoCommand EXCEPT
                  !.op = op,
                  !.pc = IF domains = <<>> THEN "unlink" ELSE "removes",
                  !.config = domains,
                  !.ret = "running",
                  !.tasks = [i \in 1..Len(domains) |->
                               RemoveTask(HostEntryFromDomain(domains[i]))]]
    /\ before' = hostsFile
    /\ calls' = calls + 1
    /\ UNCHANGED <<domains, hostsFile, nginxDir, last, writes,
                   settings, nginxConf, document, process>>

\* unlinkServer: `await this.nginx.unlink()`
ShutdownUnlink ==
    /\ cmd.pc = "unlink"
    /\ cmd.op \in {"stop", "uninstall"}
    /\ nginxConf' = UnlinkText(nginxConf, settings)
    /\ cmd' = [cmd EXCEPT !.pc = "probe"]
    /\ UNCHANGED <<domains, hostsFile, nginxDir, last, before, calls, writes,
                   settings, document, process>>

\* stopServer: `if (!(await Nginx.isRunning())) return this.warn(...)`, then
\* the branch on `this.nginx.isOurs`: stop the proxy, or restartServer, which
\* is nginx.reload()
ShutdownProbe ==
    /\ cmd.pc = "probe"
    /\ \E answer \in IsRunningAnswers(process) :
        /\ process' = [process EXCEPT !.executed = Append(@, Executed("isRunning", answer))]
        /\ cmd' = IF answer
                  THEN [cmd EXCEPT !.pc = IF isOurs(settings) THEN "quit" ELSE "isRunning"]
                  ELSE IF cmd.op = "uninstall"
                       THEN [cmd EXCEPT !.pc = "delete"]
                       ELSE [cmd EXCEPT !.pc = "idle", !.ret = "ok"]
    /\ UNCHANGED <<domains, hostsFile, nginxDir, last, before, calls, writes,
                   settings, nginxConf, document>>

\* Nginx.stop: `await execa(this.nginx, ["-s", "quit"])`, whose error, when
\* no proxy takes the signal, leaves the command as it is
ShutdownQuit ==
    /\ cmd.pc = "quit"
    /\ \E ok \in (IF process.running THEN {TRUE, FALSE} ELSE {FALSE}) :
        /\ process' = [process EXCEPT !.running = IF ok THEN FALSE ELSE @,
                                       !.executed = Append(@, Executed("quit", ok))]
        /\ cmd' = IF ~ok THEN [cmd EXCEPT !.pc = "idle", !.ret = "Error", !.failed = TRUE]
                  ELSE IF cmd.op = "uninstall" THEN [cmd EXCEPT !.pc = "delete"]
                  ELSE [cmd EXCEPT !.pc = "idle", !.ret = "ok"]
    /\ UNCHANGED <<domains, hostsFile, nginxDir, last, before, calls, writes,
                   settings, nginxConf, document>>

\* UninstallCommand.deleteServerFiles: `if (this.nginx.isOurs)` the install
\* directory is removed, nginx.conf with it
ShutdownDelete ==
    /\ cmd.pc = "delete"
    /\ IF isOurs(settings)
       THEN /\ process' = [process EXCEPT !.installed = FALSE,
                                           !.executed = Append(@, Executed("remove", TRUE))]
            /\ nginxConf' = <<>>
       ELSE UNCHANGED <<process, nginxConf>>
    /\ cmd' = [cmd EXCEPT !.pc = "idle", !.ret = "ok"]
    /\ UNCHANGED <<domains, hostsFile, nginxDir, last, before, calls, writes,
                   settings, document>>

NextShutdown ==
    \/ ShutdownCommandAction
    \/ RemoveReadEntries
    \/ RemoveReadLines
    \/ RemoveWriteLines
    \/ RemovesDone
    \/ ShutdownUnlink
    \/ ShutdownProbe
    \/ ShutdownQuit
    \/ ShutdownDelete
    \/ ReloadIsRunning
    \/ ReloadStart
    \/ ReloadSignal
    \/ ProxyExits

SpecShutdown == InitShutdown /\ [][NextShutdown]_vars

\* What execa and remove were given to run, as a set.
ExecutedRuns == { process.executed[i].run : i \in 1..Len(process.executed) }

\* C38: when the install path of the settings is not the default path, the
\* stop and uninstall commands never send the quit signal and never remove
\* the install directory; they reload the proxy instead, and only after the
\* probe of stopServer found it running.
C38_ForeignProxyNeverStoppedOrDeleted ==
    settings.nginx # default_path =>
        /\ "quit" \notin ExecutedRuns
        /\ "remove" \notin ExecutedRuns
        /\ process.installed
        /\ (ExecutedRuns \cap {"reload", "start"} # {} \/ cmd.pc \in {"isRunning", "start", "signal"}) =>
               process.executed[1] = Executed("isRunning", TRUE)

\* An uninstall of a running proxy at another path has completed: the proxy
\* was reloaded, still runs and its directory is there.
C38_Witness ==
    /\ cmd.op = "uninstall" /\ cmd.pc = "idle" /\ cmd.ret = "ok"
    /\ settings.nginx = <<"/", "o">>
    /\ process.running /\ process.installed
    /\ process.executed = <<Executed("isRunning", TRUE), Executed("isRunning", TRUE),
                            Executed("reload", TRUE)>>

====
